---- MODULE Spec2Model ----
(***************************************************************************)
(* A model of the ContextOS backend: the FAISS vector store and its index  *)
(* files, document ingestion, index rebuild, semantic and hybrid search,   *)
(* the safe SQL executor, the database session dependency and the agent    *)
(* query endpoints.                                                        *)
(*                                                                         *)
(* Each subsystem has its own next-state relation and specification over   *)
(* the one set of variables; a specification leaves the variables of the   *)
(* other subsystems unchanged.                                             *)
(***************************************************************************)
EXTENDS Integers, Sequences, FiniteSets, TLC

VARIABLES
    vs,         \* vs[p]: the module-level vector_store of process p
    disk,       \* the two index files under storage_path, shared by all processes
    embRows,    \* committed ChunkEmbedding rows joined with their document type
    lastCall,   \* the vector-store / rebuild call made last and how it ended
    ingest,     \* the running ingest_documents call: its batch and position
    dbRows,     \* Document / DocumentChunk / ChunkEmbedding rows committed
    dbPending,  \* rows added to the session and flushed, not yet committed
    sql,        \* the execute_query call: its statement and how it ended
    sqlSent,    \* the statements the database has been sent by execute_query
    req,        \* per request: its session dependency and its unit of work
    sessRows,   \* number of rows the requests' sessions have committed
    searchQueries, \* the persisted SearchQuery audit rows, oldest first
    task,       \* per handler running on the HTTP process's event loop: its position
    running,    \* the handler that holds the event loop, 0 when it is free
    agent,      \* per request to an agent query endpoint: its position and log
    queryCache, \* the QueryCache: its entries and its statistics
    ttlCache,   \* the QueryCache in detail: its TTLCache links and statistics
    clock,      \* the monotonic clock the TTLCache reads
    cacheCall,  \* the QueryCache call made last and what it returned
    lastSet,    \* per cache key that was ever set: the time of its last set
    dispatcher, \* the GeminiToolDispatcher: its tools and its schema list
    gem,        \* the GeminiAgent.query call: its position, inputs and result
    decideCall, \* the RAGAgent.decide call: its context and its decision
    metrics,    \* the MetricsCollector: its request list and usage statistics
    recorded,   \* every record that record_request was given, oldest first
    active_requests, \* the active_requests gauge
    mw,         \* per request through the observability middleware: its trace
    life,       \* the application lifespan: its position and its connections
    taskLog,    \* what the background tasks run so far returned or raised
    chunking,   \* a chunk_text call: its service's settings, its loop variables
    trip,       \* a save / clear / load round trip of the store: how far it got
    execCall,   \* the last RAGAgent.execute call: its inputs and what it gave
    usage       \* the token tracker of the LLM agent and the agent requests reporting usage

storeVars == <<vs, disk, embRows, lastCall>>
ingestVars == <<ingest, dbRows, dbPending>>

sqlVars == <<sql, sqlSent>>

sessVars == <<req, sessRows>>

searchVars == <<searchQueries>>

loopVars == <<task, running>>

agentVars == <<agent, queryCache>>

cacheVars == <<ttlCache, clock, cacheCall, lastSet>>

llmVars == <<dispatcher, gem>>

decideVars == <<decideCall>>

obsVars == <<metrics, recorded, active_requests, mw>>

lifeVars == <<life>>

\* the services of the retrieval pipeline
serviceVars == <<storeVars, ingestVars, sqlVars, sessVars, searchVars, loopVars,
                 agentVars>>

\* the infrastructure around them
infraVars == <<cacheVars, llmVars, decideVars, obsVars, lifeVars>>

taskVars == <<taskLog>>

\* the units checked on their own
chunkVars == <<chunking>>

tripVars == <<trip>>

execVars == <<execCall>>

usageVars == <<usage>>

extraVars == <<taskVars, chunkVars, tripVars, execVars, usageVars>>

vars == <<serviceVars, infraVars, extraVars>>

-----------------------------------------------------------------------------
(* Bounds of the model *)

MaxIndexLen == 2     \* most vectors a store holds
MaxAddLen == 2       \* most vectors / chunk ids passed to one add_vectors call
MaxEmbRows == 2      \* most ChunkEmbedding rows in the database
MaxBatchLen == 2     \* most documents in one ingestion request
MaxBatches == 2      \* ingestion requests made
MaxChunks == 2       \* most chunks the chunking service cuts a document into
MaxQueryLen == 4     \* most lexemes in a SQL statement
MaxWrites == 2       \* most rows a unit of work adds to its session
MaxTopK == 2         \* largest top_k a caller asks for
max_size == 2        \* capacity of the query cache (1000 in cache.py)
ttl_seconds == 2     \* time to live of a cache entry (3600 in cache.py)
MaxClock == 2        \* the clock stops here
MaxCacheOps == 4     \* get and set calls made on the query cache
MaxSchemas == 3      \* register_tool calls made on the dispatcher
MaxParts == 2        \* most parts in a model response
MaxDecideLen == 2    \* most lexemes in a query that decide is given
RequestsKept == 2    \* requests the metrics collector keeps (1000 in metrics.py)
MaxRecorded == 4     \* record_request calls made
MaxTaskRuns == 2     \* background tasks run
MaxTokens == 1030    \* most tokens of a text chunked with the default settings
MaxChunkSize == 3    \* largest chunk_size of a service configured otherwise
MaxChunkOverlap == 3 \* largest chunk_overlap of a service configured otherwise
MaxSmallTokens == 5  \* most tokens of a text chunked by such a service
MaxIterations == 8   \* loop iterations followed; more than any text has tokens

-----------------------------------------------------------------------------
(* Helpers *)

SeqsUpTo(S, n) == UNION {[1..k -> S] : k \in 0..n}

RECURSIVE SelectSeq2(_, _)
\* the subsequence of the records of s whose doc_type is in T, in order
SelectSeq2(s, T) ==
    IF s = <<>> THEN <<>>
    ELSE IF Head(s).doc_type \in T
         THEN <<Head(s)>> \o SelectSeq2(Tail(s), T)
         ELSE SelectSeq2(Tail(s), T)

-----------------------------------------------------------------------------
(* FAISSVectorStore *)

Procs == {"http", "worker"}
Vecs == {1, 2}          \* the embedding vectors (points on a line)
ChunkIds == {1, 2}      \* chunk ids passed to add_vectors directly
DocTypes == {"text", "jira"}

\* An index entry is the vector together with the chunk id it was passed
\* with in the add_vectors call: `of' is what "the vector belongs to" means.
Entry(v, c) == [v |-> v, of |-> c]

\* FAISSVectorStore.__init__: no index yet, no chunk ids.
NewStore == [has_index |-> FALSE, index |-> <<>>, chunk_ids |-> <<>>]

\* FAISSVectorStore.create_index: a fresh empty index and chunk_ids = [].
create_index(s) == [has_index |-> TRUE, index |-> <<>>, chunk_ids |-> <<>>]

\* FAISSVectorStore.clear_index: self.create_index().
clear_index(s) == create_index(s)

\* FAISSVectorStore.add_vectors.  dimOk is whether the array has the
\* shape [n, vector_dim] that index.add accepts.  The result is the store
\* and whether the call raised.
add_vectors(s, vectors, chunk_ids, dimOk) ==
    LET s1 == IF s.has_index THEN s ELSE create_index(s)
    IN  IF Len(vectors) # Len(chunk_ids)
        THEN [store |-> s1, raised |-> TRUE]        \* ValueError
        ELSE IF ~dimOk
        THEN [store |-> s1, raised |-> TRUE]        \* index.add rejects the array
        ELSE [store |-> [s1 EXCEPT
                  !.index = @ \o [i \in 1..Len(vectors) |->
                                    Entry(vectors[i], chunk_ids[i])],
                  !.chunk_ids = @ \o chunk_ids],
              raised |-> FALSE]

\* The index files: faiss_index.bin and faiss_index.bin.metadata.
\* A file exists or not, and is readable or not (a partly written file).
NoFile == [exists |-> FALSE, ok |-> FALSE, data |-> <<>>]
GoodFile(d) == [exists |-> TRUE, ok |-> TRUE, data |-> d]
BadFile == [exists |-> TRUE, ok |-> FALSE, data |-> <<>>]

NoDisk == [indexFile |-> NoFile, metaFile |-> NoFile]

\* How the two writes of save_index can end: both succeed; nothing was
\* written (the index file could not be opened); write_index failed part
\* way; the index was written and the metadata dump failed after
\* open(metadata_path, 'wb') had truncated the file.
SaveOutcomes == {"ok", "raise_early", "raise_index", "raise_meta"}

\* FAISSVectorStore.save_index: the index file is written first, the
\* metadata file second.
save_index(s, d, outcome) ==
    IF ~s.has_index
    THEN [disk |-> d, raised |-> FALSE]             \* "No index to save"
    ELSE CASE outcome = "ok" ->
                [disk |-> [indexFile |-> GoodFile(s.index),
                           metaFile |-> GoodFile(s.chunk_ids)],
                 raised |-> FALSE]
           [] outcome = "raise_early" ->
                [disk |-> d, raised |-> TRUE]
           [] outcome = "raise_index" ->
                [disk |-> [d EXCEPT !.indexFile = BadFile], raised |-> TRUE]
           [] outcome = "raise_meta" ->
                [disk |-> [indexFile |-> GoodFile(s.index),
                           metaFile |-> BadFile],
                 raised |-> TRUE]

load_index_without_chunk_ids(s, d) ==
    IF ~d.indexFile.exists \/ ~d.metaFile.exists
    THEN [store |-> s, ret |-> FALSE]
    ELSE [store |-> [s EXCEPT !.has_index = TRUE, !.index = d.indexFile.data],
          ret |-> TRUE]

\* FAISSVectorStore.load_index: self.index is assigned as soon as
\* read_index returns; the metadata is read after that, and any exception
\* is caught and turned into False.
load_index(s, d) ==
    IF ~d.indexFile.exists \/ ~d.metaFile.exists
    THEN [store |-> s, ret |-> FALSE]
    ELSE IF ~d.indexFile.ok
    THEN [store |-> s, ret |-> FALSE]
    ELSE LET s1 == [s EXCEPT !.has_index = TRUE, !.index = d.indexFile.data]
         IN  IF ~d.metaFile.ok
             THEN [store |-> s1, ret |-> FALSE]
             ELSE [store |-> [s1 EXCEPT !.chunk_ids = d.metaFile.data],
                   ret |-> TRUE]

\* FAISSVectorStore.get_stats()['total_vectors']
total_vectors(s) == IF s.has_index THEN Len(s.index) ELSE 0

-----------------------------------------------------------------------------
(* IngestionService.rebuild_vector_index *)

\* A ChunkEmbedding row with the doc_type of its document (the join).
EmbRow(c, t, v) == [chunk_id |-> c, doc_type |-> t, vec |-> v]

\* The rows the query selects: all of them, or those of one doc_type.
\* `if doc_type:' treats None and "" alike, as no filter.
NoFilter == "none"
MatchingRows(rows, doc_type) ==
    IF doc_type = NoFilter THEN rows ELSE SelectSeq2(rows, {doc_type})

RowVectors(rows) == [i \in 1..Len(rows) |-> rows[i].vec]
RowChunkIds(rows) == [i \in 1..Len(rows) |-> rows[i].chunk_id]

Raised == -1    \* the call ended with an exception

\* The whole call on store s and disk d: the result, and the store and
\* disk it leaves.
rebuild_keep_old(s, d, rows, outcome) ==
    IF rows = <<>>
    THEN [store |-> s, disk |-> d, ret |-> 0]
    ELSE LET added == add_vectors(s, RowVectors(rows), RowChunkIds(rows), TRUE)
             saved == save_index(added.store, d, outcome)
         IN  [store |-> added.store, disk |-> saved.disk,
              ret |-> IF saved.raised THEN Raised ELSE Len(rows)]

rebuild_vector_index(s, d, rows, outcome) ==
    IF rows = <<>>
    THEN [store |-> s, disk |-> d, ret |-> 0]
    ELSE LET cleared == clear_index(s)
             added == add_vectors(cleared, RowVectors(rows), RowChunkIds(rows), TRUE)
             saved == save_index(added.store, d, outcome)
         IN  [store |-> added.store, disk |-> saved.disk,
              ret |-> IF added.raised \/ saved.raised THEN Raised ELSE Len(rows)]

-----------------------------------------------------------------------------
(* Calls on one vector store, one after the other *)

Call(op, arg, ret) == [op |-> op, arg |-> arg, ret |-> ret]

\* lastCall when the last call was not a rebuild
NoCall == Call("other", NoFilter, 0)

InitStoreVars ==
    /\ vs = [p \in Procs |-> NewStore]
    /\ disk = NoDisk
    /\ embRows = <<>>
    /\ lastCall = NoCall

CreateIndex(p) ==
    /\ vs' = [vs EXCEPT ![p] = create_index(vs[p])]
    /\ lastCall' = NoCall
    /\ UNCHANGED <<disk, embRows>>

ClearIndex(p) ==
    /\ vs' = [vs EXCEPT ![p] = clear_index(vs[p])]
    /\ lastCall' = NoCall
    /\ UNCHANGED <<disk, embRows>>

AddVectors(p) ==
    \E vectors \in SeqsUpTo(Vecs, MaxAddLen),
       chunk_ids \in SeqsUpTo(ChunkIds, MaxAddLen),
       dimOk \in BOOLEAN :
        LET r == add_vectors(vs[p], vectors, chunk_ids, dimOk)
        IN  /\ Len(vs[p].index) + Len(vectors) <= MaxIndexLen
            /\ Len(vs[p].chunk_ids) + Len(chunk_ids) <= MaxIndexLen
            /\ vs' = [vs EXCEPT ![p] = r.store]
            /\ lastCall' = NoCall
            /\ UNCHANGED <<disk, embRows>>

SaveIndex(p) ==
    \E outcome \in SaveOutcomes :
        LET r == save_index(vs[p], disk, outcome)
        IN  /\ disk' = r.disk
            /\ lastCall' = NoCall
            /\ UNCHANGED <<vs, embRows>>

LoadIndex(p) ==
    LET r == load_index(vs[p], disk)
    IN  /\ vs' = [vs EXCEPT ![p] = r.store]
        /\ lastCall' = NoCall
        /\ UNCHANGED <<disk, embRows>>

\* An ingestion commits one more ChunkEmbedding row.
CommitEmbedding ==
    /\ Len(embRows) < MaxEmbRows
    /\ \E t \in DocTypes, v \in Vecs :
           embRows' = Append(embRows, EmbRow(Len(embRows) + 1, t, v))
    /\ lastCall' = NoCall
    /\ UNCHANGED <<vs, disk>>

Rebuild(p) ==
    \E doc_type \in DocTypes \cup {NoFilter}, outcome \in SaveOutcomes :
        LET r == rebuild_vector_index(vs[p], disk,
                                      MatchingRows(embRows, doc_type), outcome)
        IN  /\ vs' = [vs EXCEPT ![p] = r.store]
            /\ disk' = r.disk
            /\ lastCall' = Call("rebuild", doc_type, r.ret)
            /\ UNCHANGED embRows

-----------------------------------------------------------------------------
(* IngestionService.ingest_document / ingest_documents *)

\* Where ingest_document raises for a document, if anywhere: at the flush
\* of the Document row, in embedding generation, or at the commit.
FailPoints == {"none", "flush", "embed", "commit"}

\* A document of a request: how many chunks chunk_text cuts it into and
\* where its ingestion fails.
DocInputs == [nchunks : 0..MaxChunks, failAt : FailPoints]

NoRows == [docs |-> {}, chunks |-> {}, embs |-> {}]

\* Whether ingest_document raises for the document.  Embeddings are
\* generated only when requested and only for a document with chunks.
Fails(doc, generate_embeddings) ==
    \/ doc.failAt \in {"flush", "commit"}
    \/ doc.failAt = "embed" /\ generate_embeddings /\ doc.nchunks > 0

\* The rows ingest_document adds for document i of batch b, up to the
\* point where it fails.  A row is named by batch, position and chunk.
DocRows(b, i, doc, generate_embeddings) ==
    [docs |-> {<<b, i>>},
     chunks |-> IF doc.failAt = "flush" THEN {}
                ELSE {<<b, i, k>> : k \in 1..doc.nchunks},
     embs |-> IF doc.failAt \in {"flush", "embed"} \/ ~generate_embeddings
              THEN {}
              ELSE {<<b, i, k>> : k \in 1..doc.nchunks}]

RowsUnion(r1, r2) ==
    [docs |-> r1.docs \cup r2.docs,
     chunks |-> r1.chunks \cup r2.chunks,
     embs |-> r1.embs \cup r2.embs]

\* ingest_document on a session with nothing pending: the rows are added
\* and flushed, then db.commit() makes them durable.  An exception leaves
\* the rows flushed so far pending.
ingest_document(committed, b, i, doc, generate_embeddings) ==
    LET rows == DocRows(b, i, doc, generate_embeddings)
    IN  IF Fails(doc, generate_embeddings)
        THEN [committed |-> committed, pending |-> rows, raised |-> TRUE]
        ELSE [committed |-> RowsUnion(committed, rows), pending |-> NoRows,
              raised |-> FALSE]

Idle == [pc |-> "idle", batch |-> <<>>, no |-> 0, pos |-> 0, embed |-> TRUE]

InitIngestVars ==
    /\ ingest = Idle
    /\ dbRows = NoRows
    /\ dbPending = NoRows

\* A request arrives: ingest_documents(db, documents_data, generate_embeddings).
IngestStart ==
    /\ ingest.pc \in {"idle", "returned", "raised"}
    /\ ingest.no < MaxBatches
    /\ \E batch \in SeqsUpTo(DocInputs, MaxBatchLen), embed \in BOOLEAN :
           /\ batch # <<>>
           /\ ingest' = [pc |-> "running", batch |-> batch,
                         no |-> ingest.no + 1, pos |-> 1, embed |-> embed]
    /\ dbPending' = NoRows          \* a new session
    /\ UNCHANGED dbRows

\* One turn of the loop of ingest_documents: ingest_document, and on an
\* exception db.rollback() and raise.
IngestNext ==
    /\ ingest.pc = "running"
    /\ ingest.pos <= Len(ingest.batch)
    /\ LET r == ingest_document(dbRows, ingest.no, ingest.pos,
                                ingest.batch[ingest.pos], ingest.embed)
       IN  /\ dbRows' = r.committed
           /\ IF r.raised
              THEN /\ dbPending' = NoRows               \* await db.rollback()
                   /\ ingest' = [ingest EXCEPT !.pc = "raised"]
              ELSE /\ dbPending' = r.pending
                   /\ ingest' = [ingest EXCEPT !.pos = @ + 1]

\* The loop is over: return documents.
IngestReturn ==
    /\ ingest.pc = "running"
    /\ ingest.pos > Len(ingest.batch)
    /\ ingest' = [ingest EXCEPT !.pc = "returned"]
    /\ UNCHANGED <<dbRows, dbPending>>

-----------------------------------------------------------------------------
(* SafeSQLExecutor *)

\* A statement is a sequence of lexemes.  The lexemes are chosen so that
\* no disallowed pattern can arise across the border of two of them.
\* "pad" stands for 2000 characters of filler.
Lexemes == {"SELECT", "select", " ", "update", "DELETE", "FROM", ";",
            "UNION", "pad"}

Queries == SeqsUpTo(Lexemes, MaxQueryLen)

\* str.upper() on a lexeme
Upper(l) ==
    CASE l = "select" -> "SELECT"
      [] l = "update" -> "UPDATE"
      [] l = "pad" -> "PAD"
      [] OTHER -> l

\* len() of a lexeme
LexLen(l) ==
    CASE l \in {"SELECT", "select", "update", "DELETE"} -> 6
      [] l = "UNION" -> 5
      [] l = "FROM" -> 4
      [] l \in {" ", ";"} -> 1
      [] l = "pad" -> 2000

RECURSIVE QueryLen(_)
QueryLen(q) == IF q = <<>> THEN 0 ELSE LexLen(Head(q)) + QueryLen(Tail(q))

RECURSIVE LStrip(_)
LStrip(q) == IF q # <<>> /\ Head(q) = " " THEN LStrip(Tail(q)) ELSE q

RECURSIVE RStrip(_)
RStrip(q) ==
    IF q # <<>> /\ q[Len(q)] = " " THEN RStrip(SubSeq(q, 1, Len(q) - 1)) ELSE q

\* query.upper().strip()
UpperStrip(q) == RStrip(LStrip([i \in 1..Len(q) |-> Upper(q[i])]))

\* DISALLOWED_PATTERNS, by shape: a keyword followed by whitespace, two
\* keywords with whitespace between them, and text that may stand anywhere.
KeywordThenSpace == {"UPDATE", "DROP", "CREATE", "ALTER", "TRUNCATE"}
TwoKeywords == {<<"INSERT", "INTO">>, <<"DELETE", "FROM">>}
Anywhere == {"EXEC", "EXECUTE", "XP_", "SP_", "--", ";", "UNION"}

\* re.search(pattern, query_upper) for some pattern of the list
HasDisallowedPattern(u) ==
    \/ \E i \in 1..Len(u) : u[i] \in Anywhere
    \/ \E i \in 1..Len(u) - 1 : u[i] \in KeywordThenSpace /\ u[i + 1] = " "
    \/ \E i \in 1..Len(u), j \in 1..Len(u) :
           /\ i + 1 < j
           /\ <<u[i], u[j]>> \in TwoKeywords
           /\ \A k \in (i + 1)..(j - 1) : u[k] = " "

MaxQueryChars == 2000

\* SafeSQLExecutor.validate_query: the first element of the pair
validate_query(q) ==
    LET query_upper == UpperStrip(q)
    IN  /\ query_upper # <<>> /\ Head(query_upper) = "SELECT"
        /\ ~HasDisallowedPattern(query_upper)
        /\ QueryLen(q) <= MaxQueryChars

\* SafeSQLExecutor.execute_query.  dbFails is whether db.execute raises.
\* The result: how the call ended and the statements it sent.
execute_query_unchecked(q, dbFails) ==
    [outcome |-> IF dbFails THEN "execution_error" ELSE "rows",
     sent |-> <<q>>]

execute_query(q, dbFails) ==
    IF ~validate_query(q)
    THEN [outcome |-> "validation_error", sent |-> <<>>]
    ELSE [outcome |-> IF dbFails THEN "execution_error" ELSE "rows",
          sent |-> <<q>>]

NoSqlCall == [pc |-> "idle", query |-> <<>>, outcome |-> "none"]

InitSqlVars ==
    /\ sql = NoSqlCall
    /\ sqlSent = <<>>

\* A caller is about to call execute_query(db, query).
InitSqlCall ==
    /\ sql \in {[pc |-> "call", query |-> q, outcome |-> "none"] : q \in Queries}
    /\ sqlSent = <<>>

ExecuteQuery ==
    /\ sql.pc = "call"
    /\ \E dbFails \in BOOLEAN :
           LET r == execute_query(sql.query, dbFails)
           IN  /\ sql' = [sql EXCEPT !.pc = "done", !.outcome = r.outcome]
               /\ sqlSent' = sqlSent \o r.sent

-----------------------------------------------------------------------------
(* Database session dependency: get_db and get_db_session *)

Reqs == {1, 2}
Vias == {"get_db", "get_db_session"}

\* The AsyncSession made by AsyncSessionLocal(), and the position of the
\* get_db generator that holds it: "yielded" while it is suspended at
\* `yield session`, "finished" once it has run to its end.
NewSession ==
    [gen |-> "yielded", pending |-> 0, committed |-> FALSE,
     rolled_back |-> FALSE, closed |-> FALSE]

\* get_db resumed at `yield session`.  signal is how it is resumed:
\* "next" (the unit of work returned), "throw" (an Exception is thrown in),
\* "close" (GeneratorExit: the generator is finalized).  commitFails is
\* whether session.commit() raises.  The result: the session afterwards,
\* the rows that reached the database, and whether an exception leaves
\* the generator.
get_db(sn, signal, commitFails) ==
    CASE signal = "next" /\ ~commitFails ->
             [sn |-> [sn EXCEPT !.gen = "finished", !.pending = 0,
                                !.committed = TRUE, !.closed = TRUE],
              rows |-> sn.pending, raised |-> FALSE]
      [] signal = "throw" \/ (signal = "next" /\ commitFails) ->
             [sn |-> [sn EXCEPT !.gen = "finished", !.pending = 0,
                                !.rolled_back = TRUE, !.closed = TRUE],
              rows |-> 0, raised |-> TRUE]
      [] signal = "close" ->
             [sn |-> [sn EXCEPT !.gen = "finished", !.pending = 0,
                                !.closed = TRUE],
              rows |-> 0, raised |-> FALSE]

\* get_db_session resumed at its own `yield session`, inside
\* `async for session in get_db()`.  On "next" the loop asks get_db for
\* its next item, which resumes get_db; an exception thrown in is raised
\* at the wrapper's yield and leaves the wrapper, and get_db stays
\* suspended until it is finalized.
get_db_session(sn, signal, commitFails) ==
    CASE signal = "next" -> get_db(sn, "next", commitFails)
      [] signal = "throw" -> [sn |-> sn, rows |-> 0, raised |-> TRUE]

Dependency(via, sn, signal, commitFails) ==
    IF via = "get_db" THEN get_db(sn, signal, commitFails)
    ELSE get_db_session(sn, signal, commitFails)

NoRequest ==
    [pc |-> "new", via |-> "get_db", sn |-> NewSession, uow |-> "none",
     result |-> "none"]

InitSessVars ==
    /\ req = [r \in Reqs |-> NoRequest]
    /\ sessRows = 0

\* The dependency is entered: the generators run up to their yield.
Acquire(r) ==
    /\ req[r].pc = "new"
    /\ \E via \in Vias :
           req' = [req EXCEPT ![r].pc = "handler", ![r].via = via]
    /\ UNCHANGED sessRows

\* The unit of work adds a row to the session.
Write(r) ==
    /\ req[r].pc = "handler"
    /\ req[r].sn.pending < MaxWrites
    /\ req' = [req EXCEPT ![r].sn.pending = @ + 1]
    /\ UNCHANGED sessRows

\* The unit of work returns; the dependency is resumed.
HandlerReturns(r) ==
    /\ req[r].pc = "handler"
    /\ \E commitFails \in BOOLEAN :
           LET d == Dependency(req[r].via, req[r].sn, "next", commitFails)
           IN  /\ req' = [req EXCEPT
                      ![r].pc = "done", ![r].uow = "returned", ![r].sn = d.sn,
                      ![r].result = IF d.raised THEN "raised" ELSE "ok"]
               /\ sessRows' = sessRows + d.rows

\* The unit of work raises; the exception is thrown into the dependency.
HandlerRaises(r) ==
    /\ req[r].pc = "handler"
    /\ LET d == Dependency(req[r].via, req[r].sn, "throw", FALSE)
       IN  /\ req' = [req EXCEPT
                  ![r].pc = "done", ![r].uow = "raised", ![r].sn = d.sn,
                  ![r].result = IF d.raised THEN "raised" ELSE "ok"]
           /\ sessRows' = sessRows + d.rows

\* A get_db generator left suspended is finalized by the event loop.
Finalize(r) ==
    /\ req[r].pc = "done"
    /\ req[r].sn.gen = "yielded"
    /\ LET d == get_db(req[r].sn, "close", FALSE)
       IN  /\ req' = [req EXCEPT ![r].sn = d.sn]
           /\ sessRows' = sessRows + d.rows

-----------------------------------------------------------------------------
(* VectorStore.search, SearchService.search and hybrid_search *)

QueryTexts == {"q1", "q2"}

\* embedding_service.generate_embedding on a query text
Embedding(text) == IF text = "q1" THEN 1 ELSE 2

\* squared L2 distance, as IndexFlatL2 reports it
Dist(q, v) == (q - v) * (q - v)

\* Scores are kept in sixtieths, so that 1 / (1 + dist) and
\* 1 - i / len(keyword_chunks) are whole numbers.
Unit == 60

Hit(c, sc) == [chunk_id |-> c, score |-> sc]

\* the positions in `left' of the index, nearest to q first
RECURSIVE Nearest(_, _, _)
Nearest(index, q, left) ==
    IF left = {} THEN <<>>
    ELSE LET i == CHOOSE i \in left : \A j \in left :
                      \/ Dist(q, index[i].v) < Dist(q, index[j].v)
                      \/ Dist(q, index[i].v) = Dist(q, index[j].v) /\ i <= j
         IN  <<i>> \o Nearest(index, q, left \ {i})

\* VectorStore.search, for the L2 index
vs_search(s, q, top_k) ==
    IF ~s.has_index \/ Len(s.index) = 0 THEN <<>>
    ELSE LET k == IF top_k < Len(s.index) THEN top_k ELSE Len(s.index)
             indices == SubSeq(Nearest(s.index, q, 1..Len(s.index)), 1, k)
             kept == SelectSeq(indices, LAMBDA idx : idx <= Len(s.chunk_ids))
         IN  [n \in 1..Len(kept) |->
                 Hit(s.chunk_ids[kept[n]],
                     Unit \div (1 + Dist(q, s.index[kept[n]].v)))]

SearchQuery(query, top_k, results_count) ==
    [query_text |-> query, top_k |-> top_k, results_count |-> results_count]

\* Where a search raises, if anywhere: in the query embedding, in a
\* database query, or at the commit of the audit row.
SearchFails == {"none", "embed", "db", "commit"}

RowIds(rows) == {rows[i].chunk_id : i \in 1..Len(rows)}

\* SearchService.search over store s and the database rows.  The result:
\* the hits returned, the audit rows persisted, and whether it raised.
search_always_audits(rows, s, query, top_k, doc_type, fail) ==
    LET vector_results == vs_search(s, Embedding(query), top_k * 2)
        chunk_map == RowIds(MatchingRows(rows, doc_type))
        found == SelectSeq(vector_results, LAMBDA h : h.chunk_id \in chunk_map)
        search_results == SubSeq(found, 1, IF Len(found) < top_k THEN Len(found) ELSE top_k)
    IN  IF fail # "none"
        THEN [results |-> <<>>, audit |-> <<>>, raised |-> TRUE]
        ELSE [results |-> search_results,
              audit |-> <<SearchQuery(query, top_k, Len(search_results))>>,
              raised |-> FALSE]

search(rows, s, query, top_k, doc_type, fail) ==
    LET vector_results == vs_search(s, Embedding(query), top_k * 2)
        chunk_map == RowIds(MatchingRows(rows, doc_type))
        found == SelectSeq(vector_results, LAMBDA h : h.chunk_id \in chunk_map)
        search_results == SubSeq(found, 1, IF Len(found) < top_k THEN Len(found) ELSE top_k)
    IN  IF fail = "embed"
        THEN [results |-> <<>>, audit |-> <<>>, raised |-> TRUE]
        ELSE IF vector_results = <<>>
        THEN [results |-> <<>>, audit |-> <<>>, raised |-> FALSE]
        ELSE IF fail \in {"db", "commit"}
        THEN [results |-> <<>>, audit |-> <<>>, raised |-> TRUE]
        ELSE [results |-> search_results,
              audit |-> <<SearchQuery(query, top_k, Len(search_results))>>,
              raised |-> FALSE]

\* combined_scores[c] = sc, or += sc: a dict keeps the place of a key
Put(d, c, sc, add) ==
    IF \E i \in 1..Len(d) : d[i].chunk_id = c
    THEN [i \in 1..Len(d) |->
             IF d[i].chunk_id = c
             THEN Hit(c, IF add THEN d[i].score + sc ELSE sc)
             ELSE d[i]]
    ELSE Append(d, Hit(c, sc))

RECURSIVE PutAll(_, _, _)
PutAll(d, hits, add) ==
    IF hits = <<>> THEN d
    ELSE PutAll(Put(d, Head(hits).chunk_id, Head(hits).score, add), Tail(hits), add)

\* sorted(..., reverse=True): highest score first, equal scores in order
RECURSIVE SortedReverse(_)
SortedReverse(d) ==
    IF d = <<>> THEN <<>>
    ELSE LET i == CHOOSE i \in 1..Len(d) : \A j \in 1..Len(d) :
                      d[i].score > d[j].score \/ (d[i].score = d[j].score /\ i <= j)
         IN  <<d[i]>> \o SortedReverse(SubSeq(d, 1, i - 1) \o SubSeq(d, i + 1, Len(d)))

hybrid_search_same_k(rows, s, query, top_k, keyword_chunks, fail) ==
    LET semantic == search(rows, s, query, top_k, NoFilter, fail)
    IN  [results |-> SubSeq(semantic.results, 1, 0), audit |-> semantic.audit,
         raised |-> semantic.raised \/ fail = "keyword"]

\* SearchService.hybrid_search with the default weights 0.7 and 0.3, scores
\* in units of 1 / (10 * Unit).  keyword_chunks are the chunk ids the
\* ILIKE query returns; fail = "keyword" is a database query raising
\* after the semantic search has returned.
hybrid_search(rows, s, query, top_k, keyword_chunks, fail) ==
    LET semantic == search(rows, s, query, top_k * 2, NoFilter, fail)
        n == Len(keyword_chunks)
        semantic_scores == [i \in 1..Len(semantic.results) |->
            Hit(semantic.results[i].chunk_id, semantic.results[i].score * 7)]
        keyword_scores == [i \in 1..n |->
            Hit(keyword_chunks[i], (((n - (i - 1)) * Unit) \div n) * 3)]
        combined_scores == PutAll(PutAll(<<>>, semantic_scores, FALSE),
                                  keyword_scores, TRUE)
        sorted == SortedReverse(combined_scores)
        sorted_chunk_ids == SubSeq(sorted, 1, IF Len(sorted) < top_k THEN Len(sorted) ELSE top_k)
        hybrid_results == SelectSeq(sorted_chunk_ids, LAMBDA h : h.chunk_id \in RowIds(rows))
    IN  IF semantic.raised \/ fail = "keyword"
        THEN [results |-> <<>>, audit |-> semantic.audit, raised |-> TRUE]
        ELSE [results |-> hybrid_results, audit |-> semantic.audit, raised |-> FALSE]

\* the lists of distinct chunk ids an ILIKE query with LIMIT k may return
KeywordChunks(rows, k) ==
    {kc \in SeqsUpTo(RowIds(rows), k) :
        \A i \in 1..Len(kc), j \in 1..Len(kc) : kc[i] = kc[j] => i = j}

SearchCall(query, top_k) == [query |-> query, top_k |-> top_k]

InitSearchVars == searchQueries = <<>>

\* The database rows, the HTTP process's store and the audit table a call
\* may find: the store was made at startup and rebuilt when the database
\* held its first k rows; the table is empty or holds an earlier row.
InitSearchCall ==
    /\ embRows \in {rows \in SeqsUpTo([chunk_id : ChunkIds \cup 1..MaxEmbRows,
                                       doc_type : DocTypes, vec : Vecs], MaxEmbRows) :
                       \A i \in 1..Len(rows) : rows[i].chunk_id = i}
    /\ \E k \in 0..MaxEmbRows, doc_type \in DocTypes \cup {NoFilter} :
           LET first == SubSeq(embRows, 1, IF k < Len(embRows) THEN k ELSE Len(embRows))
               r == rebuild_vector_index(create_index(NewStore), NoDisk,
                                         MatchingRows(first, doc_type), "ok")
           IN  /\ vs = [p \in Procs |-> IF p = "http" THEN r.store ELSE NewStore]
               /\ disk = r.disk
    /\ lastCall = NoCall
    /\ searchQueries \in {<<>>} \cup {<<SearchQuery(q, 1, 1)>> : q \in QueryTexts}

\* One call of search, after whatever was last done to the store.
Search(p) ==
    /\ lastCall = NoCall
    /\ \E query \in QueryTexts, top_k \in 1..MaxTopK,
          doc_type \in DocTypes \cup {NoFilter}, fail \in SearchFails :
           LET r == search(embRows, vs[p], query, top_k, doc_type, fail)
           IN  /\ searchQueries' = searchQueries \o r.audit
               /\ lastCall' = Call("search", SearchCall(query, top_k),
                                   IF r.raised THEN Raised ELSE Len(r.results))
    /\ UNCHANGED <<vs, disk, embRows>>

\* One call of hybrid_search.
HybridSearch(p) ==
    /\ lastCall = NoCall
    /\ \E query \in QueryTexts, top_k \in 1..MaxTopK,
          keyword_chunks \in KeywordChunks(embRows, MaxTopK * 2),
          fail \in SearchFails \cup {"keyword"} :
           LET r == hybrid_search(embRows, vs[p], query, top_k,
                                  keyword_chunks, fail)
           IN  /\ Len(keyword_chunks) <= top_k * 2
               /\ searchQueries' = searchQueries \o r.audit
               /\ lastCall' = Call("hybrid_search", SearchCall(query, top_k),
                                   IF r.raised THEN Raised ELSE Len(r.results))
    /\ UNCHANGED <<vs, disk, embRows>>

-----------------------------------------------------------------------------
(* Ingestion in the HTTP process and in the task worker *)

\* initialize_rag_services, run when process p starts: the new process
\* loads the index files, or creates an empty index.
Startup(p) ==
    /\ LET r == load_index(NewStore, disk)
       IN  vs' = [vs EXCEPT ![p] = IF r.ret THEN r.store ELSE create_index(r.store)]
    /\ lastCall' = NoCall
    /\ UNCHANGED <<disk, embRows>>

\* A handler in process p ingests one document of one chunk with its
\* embedding and then rebuilds the index of p without a filter.
\* ingestFails is whether ingest_documents raises.
IngestAndRebuild(p, op) ==
    /\ Len(embRows) < MaxEmbRows
    /\ \E t \in DocTypes, v \in Vecs, ingestFails \in BOOLEAN,
          outcome \in SaveOutcomes :
           LET rows == Append(embRows, EmbRow(Len(embRows) + 1, t, v))
               r == rebuild_vector_index(vs[p], disk, rows, outcome)
           IN  IF ingestFails
               THEN /\ lastCall' = Call(op, NoFilter, Raised)
                    /\ UNCHANGED <<vs, disk, embRows>>
               ELSE /\ embRows' = rows
                    /\ vs' = [vs EXCEPT ![p] = r.store]
                    /\ disk' = r.disk
                    /\ lastCall' = Call(op, NoFilter,
                                        IF r.ret = Raised THEN Raised ELSE 1)

\* POST /ingest/sync, served by the HTTP process
IngestDocumentsSync == IngestAndRebuild("http", "ingest_documents_sync")

\* The process_documents task that POST /ingest submits, run by the worker
ProcessDocuments == IngestAndRebuild("worker", "process_documents")

-----------------------------------------------------------------------------
(* Handlers on the event loop of the HTTP process *)

Tasks == {1, 2, 3}

\* The positions at which a handler is suspended in an `await' (or has not
\* started, or has returned); at every other position it holds the loop.
\* ingest_documents_sync: "ingesting" (ingest_documents), "querying" (the
\* query of rebuild_vector_index), then "fetched", "cleared", "added" with
\* no await in between.  search: "embedding" (generate_embedding),
\* "fetching" (the database query and the commit of the audit row).
AwaitPointsInRebuild ==
    {"idle", "ingesting", "querying", "cleared", "added", "embedding",
     "fetching", "done"}

AwaitPoints == {"idle", "ingesting", "querying", "embedding", "fetching", "done"}

NoTask ==
    [kind |-> "none", pc |-> "idle", rows |-> <<>>, seen |-> NewStore,
     call |-> SearchCall("q1", 1), partial |-> FALSE]

InitLoopVars ==
    /\ task = [t \in Tasks |-> NoTask]
    /\ running = 0

\* Handler t takes a step that leaves it at position pc.
Step(t, pc) ==
    /\ running \in {0, t}
    /\ running' = IF pc \in AwaitPoints THEN 0 ELSE t

\* POST /ingest/sync starts and awaits ingest_documents.
StartIngest(t) ==
    /\ task[t].pc = "idle"
    /\ Step(t, "ingesting")
    /\ task' = [task EXCEPT ![t].kind = "rebuild", ![t].pc = "ingesting"]
    /\ UNCHANGED <<vs, disk, embRows, lastCall, searchQueries>>

\* ingest_documents has committed an embedding; rebuild_vector_index is
\* called and awaits its query.
IngestDone(t) ==
    /\ task[t].pc = "ingesting"
    /\ Len(embRows) < MaxEmbRows
    /\ Step(t, "querying")
    /\ \E d \in DocTypes, v \in Vecs :
           embRows' = Append(embRows, EmbRow(Len(embRows) + 1, d, v))
    /\ task' = [task EXCEPT ![t].pc = "querying"]
    /\ UNCHANGED <<vs, disk, lastCall, searchQueries>>

\* The query returns the embeddings; with none the rebuild returns 0.
QueryDone(t) ==
    /\ task[t].pc = "querying"
    /\ LET pc == IF embRows = <<>> THEN "done" ELSE "fetched"
       IN  /\ Step(t, pc)
           /\ task' = [task EXCEPT ![t].pc = pc, ![t].rows = embRows]
    /\ UNCHANGED <<vs, disk, embRows, lastCall, searchQueries>>

\* vector_store.clear_index()
RebuildClear(t) ==
    /\ task[t].pc = "fetched"
    /\ Step(t, "cleared")
    /\ vs' = [vs EXCEPT !["http"] = clear_index(@)]
    /\ task' = [task EXCEPT ![t].pc = "cleared"]
    /\ UNCHANGED <<disk, embRows, lastCall, searchQueries>>

\* vector_store.add_vectors(vectors, chunk_ids)
RebuildAdd(t) ==
    /\ task[t].pc = "cleared"
    /\ Step(t, "added")
    /\ vs' = [vs EXCEPT !["http"] =
                 add_vectors(@, RowVectors(task[t].rows),
                             RowChunkIds(task[t].rows), TRUE).store]
    /\ task' = [task EXCEPT ![t].pc = "added"]
    /\ UNCHANGED <<disk, embRows, lastCall, searchQueries>>

\* vector_store.save_index(); the handler returns or fails.
RebuildSave(t) ==
    /\ task[t].pc = "added"
    /\ Step(t, "done")
    /\ \E outcome \in SaveOutcomes :
           disk' = save_index(vs["http"], disk, outcome).disk
    /\ task' = [task EXCEPT ![t].pc = "done"]
    /\ UNCHANGED <<vs, embRows, lastCall, searchQueries>>

\* A search starts and awaits the embedding of its query.
StartSearch(t) ==
    /\ task[t].pc = "idle"
    /\ Step(t, "embedding")
    /\ \E query \in QueryTexts, top_k \in 1..MaxTopK :
           task' = [task EXCEPT ![t].kind = "search", ![t].pc = "embedding",
                                ![t].call = SearchCall(query, top_k)]
    /\ UNCHANGED <<vs, disk, embRows, lastCall, searchQueries>>

\* The search reads the vector store; with no candidate it returns, else
\* it awaits the database.  partial records whether the store it read had
\* been cleared by a rebuild that had not yet refilled it.
ReadStore(t) ==
    /\ task[t].pc = "embedding"
    /\ LET hits == vs_search(vs["http"], Embedding(task[t].call.query),
                             task[t].call.top_k * 2)
           pc == IF hits = <<>> THEN "done" ELSE "fetching"
       IN  /\ Step(t, pc)
           /\ task' = [task EXCEPT
                  ![t].pc = pc, ![t].seen = vs["http"],
                  ![t].partial = \E u \in Tasks : task[u].pc = "cleared"]
    /\ UNCHANGED <<vs, disk, embRows, lastCall, searchQueries>>

\* The database has answered; the audit row is committed.
FinishSearch(t) ==
    /\ task[t].pc = "fetching"
    /\ Step(t, "done")
    /\ \E fail \in {"none", "db", "commit"} :
           searchQueries' = searchQueries \o
               search(embRows, task[t].seen, task[t].call.query,
                      task[t].call.top_k, NoFilter, fail).audit
    /\ task' = [task EXCEPT ![t].pc = "done"]
    /\ UNCHANGED <<vs, disk, embRows, lastCall>>

-----------------------------------------------------------------------------
(* Agent query endpoints: query_agent of agent.py and of agent_v2.py *)

AgentReqs == {1, 2}
AgentQueries == {"Hello", "hello "}
HistoryCounts == {0, 1}

\* What the LLM agent answers; "error" is its failure payload.
LLMAnswers == {"a1", "error"}

Absent == "None"

\* QueryCache._generate_key: the query stripped and lower-cased, with the
\* keyword arguments top_k = 5 and history_count.
generate_key(query, history_count) ==
    [query |-> IF query \in {"Hello", "hello "} THEN "hello" ELSE query,
     top_k |-> 5, history_count |-> history_count]

CacheKeys == {generate_key(q, h) : q \in AgentQueries, h \in HistoryCounts}

\* `if cached_response:'
IsHitNever(cached_response) == FALSE

IsHit(cached_response) == cached_response # Absent

NoAgentReq ==
    [pc |-> "new", query |-> "Hello", history_count |-> 0, traced |-> FALSE,
     cache_hit |-> FALSE, cached |-> Absent, events |-> <<>>,
     response |-> Absent, status |-> 0]

InitAgentVars ==
    /\ agent = [r \in AgentReqs |-> NoAgentReq]
    /\ queryCache = [cache |-> [k \in CacheKeys |-> Absent],
                     hits |-> 0, misses |-> 0, sets |-> 0]

\* The request arrives; traced is whether the observability middleware
\* has started a trace for it.  The handler looks the query up in the
\* cache; on a hit it marks the trace and returns the cached response, on a
\* miss it opens the rag_search span and awaits the search.
CacheCheck(r) ==
    /\ agent[r].pc = "new"
    /\ \E query \in AgentQueries, history_count \in HistoryCounts,
          traced \in BOOLEAN :
           LET cached_response == queryCache.cache[generate_key(query, history_count)]
               a == [agent[r] EXCEPT !.query = query,
                                     !.history_count = history_count,
                                     !.traced = traced,
                                     !.cached = cached_response]
           IN  IF IsHit(cached_response)
               THEN /\ agent' = [agent EXCEPT ![r] =
                           [a EXCEPT !.pc = "done", !.cache_hit = traced,
                                     !.events = <<"cache_hit">>,
                                     !.response = cached_response,
                                     !.status = 200]]
                    /\ queryCache' = [queryCache EXCEPT !.hits = @ + 1]
               ELSE /\ agent' = [agent EXCEPT ![r] =
                           [a EXCEPT !.pc = "searching",
                                     !.events = <<"cache_miss", "search_start">>]]
                    /\ queryCache' = [queryCache EXCEPT !.misses = @ + 1]

\* search_service.search returns or raises.  rag_span.end() raises when
\* add_span returned None, which it does without a trace; any exception
\* becomes the 500 (or 503) response.  Otherwise the gemini_query span is
\* opened and the LLM query awaited.
SearchReturns(r) ==
    /\ agent[r].pc = "searching"
    /\ \E raises \in BOOLEAN :
           agent' = [agent EXCEPT ![r] =
               IF raises
               THEN [@ EXCEPT !.pc = "done", !.status = 500,
                              !.events = Append(@, "search_raised")]
               ELSE IF ~agent[r].traced
               THEN [@ EXCEPT !.pc = "done", !.status = 500,
                              !.events = Append(@, "search_end")]
               ELSE [@ EXCEPT !.pc = "llm",
                              !.events = @ \o <<"search_end", "llm_start">>]]
    /\ UNCHANGED queryCache

\* gemini_agent.query returns its payload; the response is built, stored
\* in the cache and returned.
LLMReturns(r) ==
    /\ agent[r].pc = "llm"
    /\ \E answer \in LLMAnswers :
           /\ agent' = [agent EXCEPT ![r] =
                  [@ EXCEPT !.pc = "done", !.status = 200, !.response = answer,
                            !.events = @ \o <<"llm_end", "cache_store">>]]
           /\ queryCache' = [queryCache EXCEPT
                  !.cache[generate_key(agent[r].query, agent[r].history_count)] = answer,
                  !.sets = @ + 1]

\* An entry leaves the TTLCache: its time to live has passed.
CacheExpire ==
    /\ \E k \in CacheKeys :
           /\ queryCache.cache[k] # Absent
           /\ queryCache' = [queryCache EXCEPT !.cache[k] = Absent]
    /\ UNCHANGED agent

\* QueryCache.clear, called by the cache-clear endpoint
CacheClear ==
    /\ queryCache' = [queryCache EXCEPT !.cache = [k \in CacheKeys |-> Absent]]
    /\ UNCHANGED agent

-----------------------------------------------------------------------------
(* QueryCache (app/core/cache.py): a cachetools TTLCache behind normalised *)
(* keys.  The TTLCache is a list of links in order of use, least recently  *)
(* used first; a link carries the time at which it expires.  Expired links *)
(* stay in the list until a set or a clear removes them.                   *)

\* the values the callers store
CacheResults == {"v1", "v2"}

\* the queries the callers pass, as lists of characters
CacheQueries == {<<"a">>, <<" ", "A">>, <<"b", " ">>, <<"a", " ", "b">>}

\* the keyword arguments the callers pass, in passing order
KwargLists ==
    { <<<<"top_k", 5>>, <<"history_count", 0>>>>,
      <<<<"history_count", 0>>, <<"top_k", 5>>>>,
      <<<<"top_k", 5>>, <<"history_count", 1>>>>,
      <<<<"top_k", 5>>>> }

\* str.lower() on one character or lexeme
Lower(c) ==
    CASE c = "A" -> "a"
      [] c = "B" -> "b"
      [] c = "Search" -> "search"
      [] OTHER -> c

\* the dictionary keys in the order json.dumps(sort_keys=True) writes them
SortedNames == <<"history_count", "query", "top_k">>

\* json.dumps(key_data) without sort_keys: the pairs in insertion order
json_dumps_unsorted(key_data) == key_data

\* json.dumps(key_data, sort_keys=True): the pairs in the order of their names
json_dumps_sorted(key_data) ==
    LET names == SelectSeq(SortedNames,
                     LAMBDA n : \E i \in DOMAIN key_data : key_data[i][1] = n)
    IN  [j \in DOMAIN names |->
            key_data[CHOOSE i \in DOMAIN key_data : key_data[i][1] = names[j]]]

\* QueryCache._generate_key; the digest of the key string is the key string
QueryCache_generate_key(query, kwargs) ==
    LET stripped == RStrip(LStrip(query))
        lowered == [i \in DOMAIN stripped |-> Lower(stripped[i])]
        key_data == <<<<"query", lowered>>>> \o json_dumps_sorted(kwargs)
    IN  json_dumps_sorted(key_data)

\* TTLCache.expire(time): the links that have not expired at that time
expire(links, time) == SelectSeq(links, LAMBDA l : time < l.expires)

\* key in TTLCache, asked at that time
Contains(links, key, time) ==
    \E i \in DOMAIN links : links[i].key = key /\ time < links[i].expires

\* a get that finds whatever link the key has, expired or not
QueryCache_get_stale(c, key, t1, t2) ==
    IF \E i \in DOMAIN c.links : c.links[i].key = key
    THEN LET i == CHOOSE j \in DOMAIN c.links : c.links[j].key = key
         IN  [cache |-> [c EXCEPT !.hits = @ + 1], ret |-> c.links[i].value]
    ELSE [cache |-> [c EXCEPT !.misses = @ + 1], ret |-> Absent]

\* QueryCache.get on cache c: the membership test is made at time t1, the
\* lookup at time t2
QueryCache_get(c, key, t1, t2) ==
    IF Contains(c.links, key, t1)
    THEN LET i == CHOOSE j \in DOMAIN c.links : c.links[j].key = key
             link == c.links[i]
             moved == Append(SelectSeq(c.links, LAMBDA l : l.key # key), link)
         IN  [cache |-> [c EXCEPT !.hits = @ + 1, !.links = moved],
              ret |-> IF t2 < link.expires THEN link.value ELSE "KeyError"]
    ELSE [cache |-> [c EXCEPT !.misses = @ + 1], ret |-> Absent]

\* a set that evicts the most recently used link when the cache is full
QueryCache_set_evict_newest(c, key, result, time) ==
    LET live == expire(c.links, time)
        known == \E i \in DOMAIN live : live[i].key = key
        kept == IF known THEN SelectSeq(live, LAMBDA l : l.key # key)
                ELSE IF Len(live) + 1 > max_size
                     THEN SubSeq(live, 1, max_size - 1)
                     ELSE live
    IN  [c EXCEPT !.sets = @ + 1,
                  !.links = Append(kept, [key |-> key, value |-> result,
                                          expires |-> time + ttl_seconds])]

\* QueryCache.set on cache c at that time
QueryCache_set(c, key, result, time) ==
    LET live == expire(c.links, time)
        known == \E i \in DOMAIN live : live[i].key = key
        kept == IF known THEN SelectSeq(live, LAMBDA l : l.key # key)
                ELSE IF Len(live) + 1 > max_size
                     THEN SubSeq(live, Len(live) + 2 - max_size, Len(live))
                     ELSE live
    IN  [c EXCEPT !.sets = @ + 1,
                  !.links = Append(kept, [key |-> key, value |-> result,
                                          expires |-> time + ttl_seconds])]

\* QueryCache.clear
QueryCache_clear(c) == [c EXCEPT !.links = <<>>]

NoCacheCall == [op |-> "none", query |-> <<>>, kwargs |-> <<>>,
                result |-> Absent, ret |-> Absent]

InitCacheVars ==
    /\ ttlCache = [links |-> <<>>, hits |-> 0, misses |-> 0, sets |-> 0]
    /\ clock = 0
    /\ cacheCall = NoCacheCall
    /\ lastSet = {}

\* calls made so far that the statistics count
CacheOps == ttlCache.hits + ttlCache.misses + ttlCache.sets

\* query_cache.get(query, **kwargs); dt is the time that passes inside it
CacheGet(query, kwargs, dt) ==
    /\ CacheOps < MaxCacheOps
    /\ clock + dt <= MaxClock
    /\ LET r == QueryCache_get(ttlCache, QueryCache_generate_key(query, kwargs),
                               clock, clock + dt)
       IN  /\ ttlCache' = r.cache
           /\ cacheCall' = [op |-> "get", query |-> query, kwargs |-> kwargs,
                            result |-> Absent, ret |-> r.ret]
    /\ clock' = clock + dt
    /\ UNCHANGED lastSet

\* query_cache.set(query, result, **kwargs)
CacheSet(query, kwargs, result) ==
    /\ CacheOps < MaxCacheOps
    /\ ttlCache' = QueryCache_set(ttlCache,
                       QueryCache_generate_key(query, kwargs), result, clock)
    /\ cacheCall' = [op |-> "set", query |-> query, kwargs |-> kwargs,
                     result |-> result, ret |-> Absent]
    /\ LET key == QueryCache_generate_key(query, kwargs)
       IN  lastSet' = {p \in lastSet : p[1] # key} \cup {<<key, clock>>}
    /\ UNCHANGED clock

\* query_cache.clear()
CacheClearAll ==
    /\ ttlCache.links # <<>>
    /\ ttlCache' = QueryCache_clear(ttlCache)
    /\ cacheCall' = [NoCacheCall EXCEPT !.op = "clear"]
    /\ UNCHANGED <<clock, lastSet>>

\* time passes between two calls
Tick ==
    /\ clock < MaxClock
    /\ clock' = clock + 1
    /\ UNCHANGED <<ttlCache, cacheCall, lastSet>>

-----------------------------------------------------------------------------
(* GeminiToolDispatcher and GeminiAgent.query (app/services/gemini_agent.py) *)

\* the tools that register_all_tools registers, in its order
AllTools == <<"search_knowledge_base", "get_jira_ticket", "search_jira_tickets",
              "create_jira_ticket", "search_slack_messages",
              "get_slack_channel_messages", "post_slack_message",
              "execute_safe_sql", "get_database_tables">>

\* the names, functions and descriptions that register_tool is called with
ToolNames == {"search_knowledge_base", "get_jira_ticket"}
ToolFunctions == {"f1", "f2"}
ToolDescriptions == {"d1", "d2"}

\* GeminiToolDispatcher.__init__
NewDispatcher == [tools |-> <<>>, tool_schemas |-> <<>>]

\* GeminiToolDispatcher.register_tool
register_tool(d, name, function, description) ==
    [tools |-> [n \in DOMAIN d.tools \cup {name} |->
                   IF n = name THEN function ELSE d.tools[n]],
     tool_schemas |-> Append(d.tool_schemas,
                             [name |-> name, description |-> description])]

\* register_all_tools: one register_tool call per tool
RECURSIVE register_all_tools(_, _)
register_all_tools(d, i) ==
    IF i > Len(AllTools) THEN d
    ELSE register_all_tools(register_tool(d, AllTools[i], AllTools[i], "d1"),
                            i + 1)

\* a part of a model response: its text, whether it has a function_call
\* attribute, and the name that function call carries
Parts ==
    { [text |-> "t", has_fc |-> FALSE, name |-> ""],
      [text |-> "t", has_fc |-> TRUE, name |-> ""],
      [text |-> "", has_fc |-> TRUE, name |-> "search_knowledge_base"],
      [text |-> "", has_fc |-> TRUE, name |-> "no_such_tool"] }

\* GeminiAgent._validate_tool_call; dict(fc.args) is always a dict
validate_tool_call(d, tool_name) == tool_name \in DOMAIN d.tools

\* the payload of the except clause that still claims success
error_payload_success(e, requests) ==
    [response |-> <<"Error processing query", e>>, tool_calls |-> <<>>,
     rag_context_used |-> 0, token_usage |-> requests, success |-> TRUE,
     error |-> e]

\* the payload that the except clause of query returns
error_payload(e, requests) ==
    [response |-> <<"Error processing query", e>>, tool_calls |-> <<>>,
     rag_context_used |-> 0, token_usage |-> requests, success |-> FALSE,
     error |-> e]

\* the payload that query returns at the end of its try block
success_payload(final_response, tool_calls, rag_count, requests) ==
    [response |-> IF final_response = <<>> THEN <<"No response generated">>
                  ELSE final_response,
     tool_calls |-> tool_calls, rag_context_used |-> rag_count,
     token_usage |-> requests, success |-> TRUE]

NoQuery == [pc |-> "idle", parts |-> <<>>, i |-> 0, rag_count |-> 0,
            tool_calls |-> <<>>, final_response |-> <<>>, followups |-> 0,
            requests |-> 0, failed |-> {}, payload |-> <<>>]

InitLlmVars ==
    /\ dispatcher = NewDispatcher
    /\ gem = NoQuery

\* dispatcher.register_tool(name, function, description, parameters)
RegisterTool(name, function, description) ==
    /\ Len(dispatcher.tool_schemas) < MaxSchemas
    /\ dispatcher' = register_tool(dispatcher, name, function, description)
    /\ UNCHANGED gem

\* the first import of app.services.gemini_tools
RegisterAllTools ==
    /\ dispatcher = NewDispatcher
    /\ gem.pc = "idle"
    /\ dispatcher' = register_all_tools(dispatcher, 1)
    /\ UNCHANGED gem

\* query up to the first model call, which raises or returns a response
GeminiSend ==
    /\ gem.pc = "idle"
    /\ \/ gem' = [gem EXCEPT !.pc = "returned", !.failed = {"model"},
                             !.payload = error_payload("model", gem.requests)]
       \/ \E parts \in SeqsUpTo(Parts, MaxParts), rag_count \in {0, 1} :
              gem' = [gem EXCEPT !.pc = "parts", !.parts = parts, !.i = 1,
                                 !.rag_count = rag_count,
                                 !.requests = @ + 1]
    /\ UNCHANGED dispatcher

\* one turn of the loop over the parts of the response: the text is added,
\* the function call is validated and executed, and its result is sent back
\* to the model while there is no text
GeminiPart ==
    /\ gem.pc = "parts"
    /\ gem.i <= Len(gem.parts)
    /\ LET part == gem.parts[gem.i]
           text == IF part.text # "" THEN Append(gem.final_response, part.text)
                   ELSE gem.final_response
           call(success, error) ==
               Append(gem.tool_calls, [tool |-> part.name, success |-> success,
                                       error |-> error])
       IN  IF ~part.has_fc
           THEN gem' = [gem EXCEPT !.final_response = text, !.i = @ + 1]
           ELSE IF ~validate_tool_call(dispatcher, part.name)
           THEN gem' = [gem EXCEPT !.final_response = text, !.i = @ + 1,
                            !.tool_calls = call(FALSE, "Unknown tool"),
                            !.failed = @ \cup {"validation"}]
           ELSE \E ran \in BOOLEAN :
                LET calls == call(ran, IF ran THEN "" ELSE "Tool execution error")
                    failed == IF ran THEN gem.failed
                              ELSE gem.failed \cup {"dispatch"}
                IN  IF text # <<>>
                    THEN gem' = [gem EXCEPT !.final_response = text,
                                     !.i = @ + 1, !.tool_calls = calls,
                                     !.failed = failed]
                    ELSE \E reply \in {"raises", "", "f"} :
                         IF reply = "raises" \/ dispatcher.tool_schemas = <<>>
                         THEN gem' = [gem EXCEPT
                                  !.pc = "returned", !.tool_calls = calls,
                                  !.followups = @ + 1,
                                  !.failed = failed \cup {"followup"},
                                  !.payload = error_payload("followup",
                                                            gem.requests)]
                         ELSE gem' = [gem EXCEPT
                                  !.final_response =
                                      IF reply = "" THEN text
                                      ELSE Append(text, reply),
                                  !.i = @ + 1, !.tool_calls = calls,
                                  !.followups = @ + 1, !.failed = failed]
    /\ UNCHANGED dispatcher

\* query returns after the last part
GeminiReturn ==
    /\ gem.pc = "parts"
    /\ gem.i > Len(gem.parts)
    /\ gem' = [gem EXCEPT !.pc = "returned",
                          !.payload = success_payload(gem.final_response,
                                          gem.tool_calls, gem.rag_count,
                                          gem.requests)]
    /\ UNCHANGED dispatcher

-----------------------------------------------------------------------------
(* RAGAgent.decide (app/services/agent/rag_agent.py).  A query is a list   *)
(* of lexemes and a keyword occurs in it as a contiguous sub-list.         *)

\* the lexemes the user queries are written with
DecideLexemes == {"Search", "find", "sources", "stats", "create", "hello", " "}

\* action_keywords, in the order of the dictionary
action_keywords ==
    << [action |-> "search",
        keywords |-> {<<"search">>, <<"find">>, <<"look", " ", "for">>,
                      <<"show", " ", "me">>, <<"what", " ", "is">>,
                      <<"how", " ", "to">>, <<"tell", " ", "me", " ", "about">>}],
       [action |-> "sources",
        keywords |-> {<<"sources">>, <<"available">>, <<"what", " ", "data">>,
                      <<"list", " ", "documents">>, <<"what", " ", "documents">>}],
       [action |-> "stats",
        keywords |-> {<<"stats">>, <<"statistics">>, <<"how", " ", "many">>,
                      <<"count">>, <<"status">>, <<"health">>}],
       [action |-> "task",
        keywords |-> {<<"create">>, <<"start">>, <<"run">>, <<"execute">>,
                      <<"process">>}] >>

\* keyword in query
Occurs(keyword, query) ==
    \E i \in 1..(Len(query) - Len(keyword) + 1) :
        SubSeq(query, i, i + Len(keyword) - 1) = keyword

\* AgentDecision(action=..., ...) with the defaults of its other fields
AgentDecision(action, tool_name, tool_arguments, requires_context, context_query) ==
    [action |-> action, tool_name |-> tool_name,
     tool_arguments |-> tool_arguments,
     requires_context |-> requires_context, context_query |-> context_query]

\* a dictionary of tool arguments, None, or the empty dictionary
ToolArguments(query, top_k) ==
    [is_none |-> FALSE, keys |-> {"query", "top_k"}, query |-> query,
     top_k |-> top_k]
NoArguments == [is_none |-> TRUE, keys |-> {}, query |-> <<>>, top_k |-> 0]
EmptyArguments == [NoArguments EXCEPT !.is_none = FALSE]

\* None where a query is expected
NoQueryText == <<Absent>>

\* the decision that each keyword family returns
family_decision(action, user_query) ==
    CASE action = "search" ->
             AgentDecision("call_tool", "search_documents",
                           ToolArguments(user_query, 5), FALSE, NoQueryText)
      [] action = "sources" ->
             AgentDecision("call_tool", "get_sources", EmptyArguments, FALSE,
                           NoQueryText)
      [] action = "stats" ->
             AgentDecision("call_tool", "get_stats", EmptyArguments, FALSE,
                           NoQueryText)
      [] action = "task" ->
             AgentDecision("clarify", Absent, NoArguments, FALSE, NoQueryText)

\* the loop of decide taking the last family that matches
decide_last_match(context) ==
    LET query == [i \in DOMAIN context.user_query |->
                     Lower(context.user_query[i])]
        matching == {i \in DOMAIN action_keywords :
                        \E keyword \in action_keywords[i].keywords :
                            Occurs(keyword, query)}
    IN  IF context.retrieved_context # <<>>
        THEN AgentDecision("answer", Absent, NoArguments, FALSE, NoQueryText)
        ELSE IF matching # {}
        THEN LET first == CHOOSE i \in matching : \A j \in matching : j <= i
             IN  family_decision(action_keywords[first].action,
                                 context.user_query)
        ELSE AgentDecision("search", Absent, NoArguments, TRUE,
                           context.user_query)

\* RAGAgent.decide
decide(context) ==
    LET query == [i \in DOMAIN context.user_query |->
                     Lower(context.user_query[i])]
        matching == {i \in DOMAIN action_keywords :
                        \E keyword \in action_keywords[i].keywords :
                            Occurs(keyword, query)}
    IN  IF context.retrieved_context # <<>>
        THEN AgentDecision("answer", Absent, NoArguments, FALSE, NoQueryText)
        ELSE IF matching # {}
        THEN LET first == CHOOSE i \in matching : \A j \in matching : i <= j
             IN  family_decision(action_keywords[first].action,
                                 context.user_query)
        ELSE AgentDecision("search", Absent, NoArguments, TRUE,
                           context.user_query)

NoDecision == AgentDecision("none", Absent, NoArguments, FALSE, NoQueryText)

\* the contexts decide is called with, and no decision made yet
InitDecideVars ==
    /\ \E user_query \in SeqsUpTo(DecideLexemes, MaxDecideLen),
          retrieved_context \in {<<>>, <<"item">>} :
           decideCall = [context |-> [user_query |-> user_query,
                                      retrieved_context |-> retrieved_context],
                         decision |-> NoDecision]

\* await agent.decide(context)
Decide ==
    /\ decideCall.decision = NoDecision
    /\ decideCall' = [decideCall EXCEPT !.decision = decide(decideCall.context)]

-----------------------------------------------------------------------------
(* MetricsCollector (app/core/metrics.py) and ObservabilityMiddleware      *)
(* (app/core/middleware.py)                                                *)

MwReqs == {1, 2}
MwPaths == {"/api/v1/agent/query", "/health"}
StatusCodes == {200, 404}
TokenCounts == {0, 7}

\* MetricsCollector.__init__
NewMetrics ==
    [requests |-> <<>>,
     usage_stats |-> [total_requests |-> 0, total_tokens |-> 0,
                      cache_hits |-> 0]]

\* the dictionary that record_request stores for a request
RequestData(method, endpoint, status_code, duration_ms, token_usage, cost, cache_hit) ==
    [method |-> method, endpoint |-> endpoint, status_code |-> status_code,
     duration_ms |-> duration_ms, token_usage |-> token_usage, cost |-> cost,
     cache_hit |-> cache_hit]

\* a record_request that keeps the oldest requests
record_request_keep_oldest(m, data) ==
    LET all == Append(m.requests, data)
    IN  [requests |-> IF Len(all) > RequestsKept
                      THEN SubSeq(all, 1, RequestsKept)
                      ELSE all,
         usage_stats |->
             [total_requests |-> m.usage_stats.total_requests + 1,
              total_tokens |-> m.usage_stats.total_tokens + data.token_usage,
              cache_hits |-> m.usage_stats.cache_hits
                                 + (IF data.cache_hit THEN 1 ELSE 0)]]

\* MetricsCollector.record_request
record_request(m, data) ==
    LET all == Append(m.requests, data)
    IN  [requests |-> IF Len(all) > RequestsKept
                      THEN SubSeq(all, Len(all) - RequestsKept + 1, Len(all))
                      ELSE all,
         usage_stats |->
             [total_requests |-> m.usage_stats.total_requests + 1,
              total_tokens |-> m.usage_stats.total_tokens + data.token_usage,
              cache_hits |-> m.usage_stats.cache_hits
                                 + (IF data.cache_hit THEN 1 ELSE 0)]]

\* RequestTrace as start_trace makes it
NewTrace(method, path) ==
    [method |-> method, path |-> path, ended |-> FALSE, status_code |-> 0,
     duration_ms |-> 0, token_usage |-> 0, cost_estimate |-> 0,
     cache_hit |-> FALSE]

NoDispatch == [pc |-> "new", trace |-> NewTrace("", ""), events |-> <<>>]

InitObsVars ==
    /\ metrics = NewMetrics
    /\ recorded = <<>>
    /\ active_requests = 0
    /\ mw = [r \in MwReqs |-> NoDispatch]

\* metrics_collector.record_request(...)
RecordRequest(data) ==
    /\ Len(recorded) < MaxRecorded
    /\ metrics' = record_request(metrics, data)
    /\ recorded' = Append(recorded, data)
    /\ UNCHANGED <<active_requests, mw>>

\* dispatch up to its await of call_next
MwDispatch(r, path) ==
    /\ mw[r].pc = "new"
    /\ IF path \in {"/metrics", "/health"}
       THEN /\ mw' = [mw EXCEPT ![r].pc = "untraced"]
            /\ UNCHANGED active_requests
       ELSE /\ mw' = [mw EXCEPT ![r].pc = "handling",
                                ![r].trace = NewTrace("POST", path)]
            /\ active_requests' = active_requests + 1
    /\ UNCHANGED <<metrics, recorded>>

\* call_next returns a response: the handler may have marked a cache hit or
\* added token usage to the trace; dispatch ends the trace and runs its
\* finally block
MwReturns(r, status_code, tokens, cache_hit) ==
    /\ mw[r].pc = "handling"
    /\ LET trace == [mw[r].trace EXCEPT !.ended = TRUE,
                                        !.status_code = status_code,
                                        !.duration_ms = 5,
                                        !.token_usage = tokens,
                                        !.cost_estimate = tokens,
                                        !.cache_hit = cache_hit]
           data == RequestData(trace.method, trace.path, status_code,
                               trace.duration_ms, trace.token_usage,
                               trace.cost_estimate, trace.cache_hit)
       IN  /\ mw' = [mw EXCEPT ![r].pc = "responded", ![r].trace = trace,
                               ![r].events = <<"trace_end", "record">>]
           /\ metrics' = record_request(metrics, data)
           /\ recorded' = Append(recorded, data)
    /\ active_requests' = active_requests - 1

MwRaises_without_dec(r) ==
    /\ mw[r].pc = "handling"
    /\ mw' = [mw EXCEPT ![r].pc = "raised",
                        ![r].events = <<"trace_end">>]
    /\ UNCHANGED <<metrics, recorded, active_requests>>

\* call_next raises: dispatch ends the trace with status 500, re-raises,
\* and its finally block finds response still None
MwRaises(r) ==
    /\ mw[r].pc = "handling"
    /\ mw' = [mw EXCEPT ![r].pc = "raised",
                        ![r].trace = [@ EXCEPT !.ended = TRUE,
                                               !.status_code = 500,
                                               !.duration_ms = 5],
                        ![r].events = <<"trace_end">>]
    /\ active_requests' = active_requests - 1
    /\ UNCHANGED <<metrics, recorded>>

-----------------------------------------------------------------------------
(* The application lifespan (backend/main.py) of the HTTP process          *)

\* the points at which the startup block can raise
StartupFailures == {"none", "init_db", "from_url", "ping", "load_model"}

InitLifeVars ==
    life = [pc |-> "new", db |-> "new", redis_client |-> "None",
            steps |-> <<>>, raised |-> "none"]

\* lifespan up to its yield: init_db, redis_service.connect and
\* initialize_rag_services, the first of which to raise ends the block
LifeStartup ==
    /\ life.pc \in {"new", "ended"}
    /\ \E failure \in StartupFailures :
           /\ life' = [pc |-> IF failure = "none" THEN "running" ELSE "failed",
                       db |-> IF failure = "init_db" THEN "new"
                              ELSE "initialized",
                       redis_client |-> IF failure \in {"init_db", "from_url"}
                                        THEN "None" ELSE "open",
                       steps |-> <<>>, raised |-> failure]
           /\ IF failure = "none"
              THEN Startup("http")
              ELSE /\ vs' = [vs EXCEPT !["http"] = NewStore]
                   /\ lastCall' = NoCall
                   /\ UNCHANGED <<disk, embRows>>

\* the finally block of lifespan: shutdown_rag_services, which catches what
\* save_index raises, then redis_service.disconnect, then close_db
LifeShutdown ==
    /\ life.pc \in {"running", "failed"}
    /\ \E outcome \in SaveOutcomes, closeRaises \in BOOLEAN,
          disposeRaises \in BOOLEAN :
           LET saved == save_index(vs["http"], disk, outcome)
               disconnected == life.redis_client = "None" \/ ~closeRaises
           IN  /\ disk' = saved.disk
               /\ life' =
                      [pc |-> "ended",
                       db |-> IF disconnected /\ ~disposeRaises
                              THEN "disposed" ELSE life.db,
                       redis_client |-> IF life.redis_client = "None"
                                        THEN "None"
                                        ELSE IF closeRaises THEN "open"
                                        ELSE "closed",
                       steps |-> IF disconnected
                                 THEN <<"rag", "redis", "db">>
                                 ELSE <<"rag", "redis">>,
                       raised |-> IF ~disconnected THEN "disconnect"
                                  ELSE IF disposeRaises THEN "close_db"
                                  ELSE life.raised]
    /\ lastCall' = NoCall
    /\ UNCHANGED <<vs, embRows>>

-----------------------------------------------------------------------------
(* Celery background tasks (app/services/tasks.py)                         *)

TaskNames == {"example_task", "long_running_task", "send_notification",
              "process_documents", "rebuild_index", "generate_embeddings_task"}

\* where a task can fail: nowhere; in its own work (the loop of
\* long_running_task with its update_state calls, the awaits inside the try
\* block of the three pipeline tasks); or, for the pipeline tasks, around
\* the try block (opening or closing the session, getting the event loop)
TaskFailures(name) ==
    CASE name \in {"example_task", "send_notification"} -> {"none"}
      [] name = "long_running_task" -> {"none", "work"}
      [] OTHER -> {"none", "work", "around"}

\* one run of a task's top-level function: the envelope it returns, or that
\* it raised
run_task(name, failure) ==
    IF failure = "none"
    THEN [task |-> name, raised |-> FALSE,
          status |-> IF name = "send_notification" THEN "sent" ELSE "completed",
          error |-> ""]
    ELSE IF failure = "work" /\ name # "long_running_task"
    THEN [task |-> name, raised |-> FALSE, status |-> "failed",
          error |-> failure]
    ELSE [task |-> name, raised |-> TRUE, status |-> "", error |-> failure]

InitTaskVars == taskLog = <<>>

\* the worker runs a task
RunTask(name, failure) ==
    /\ Len(taskLog) < MaxTaskRuns
    /\ taskLog' = Append(taskLog, run_task(name, failure))

-----------------------------------------------------------------------------
(* ChunkingService.chunk_text (app/services/chunking_service.py)           *)

DefaultChunkSize == 512
DefaultChunkOverlap == 50

SmallerOf(a, b) == IF a <= b THEN a ELSE b

\* len(tokens[a:b]) for a list of n tokens: a negative bound counts from the
\* end of the list, and both bounds are clamped to the list
SliceLen(n, a, b) ==
    LET lo == IF a < 0 THEN (IF n + a < 0 THEN 0 ELSE n + a) ELSE SmallerOf(a, n)
        hi == IF b < 0 THEN (IF n + b < 0 THEN 0 ELSE n + b) ELSE SmallerOf(b, n)
    IN  IF hi > lo THEN hi - lo ELSE 0

next_start_without_overlap(end, chunk_overlap) == end

\* the start of the next chunk
next_start(end, chunk_overlap) ==
    end - chunk_overlap

NoChunking ==
    [pc |-> "idle", chunk_size |-> DefaultChunkSize,
     chunk_overlap |-> DefaultChunkOverlap, total_tokens |-> 0,
     start |-> 0, chunk_index |-> 0, chunks |-> <<>>]

InitChunkVars == chunking = NoChunking

\* the module's chunking_service, called with a text of any number of tokens
InitChunkDefault ==
    \E t \in 0..MaxTokens :
        chunking = [NoChunking EXCEPT !.pc = "called", !.total_tokens = t]

\* a ChunkingService built with any chunk_size >= 1 and chunk_overlap >= 0
InitChunkAny ==
    \E cs \in 1..MaxChunkSize, ov \in 0..MaxChunkOverlap, t \in 0..MaxSmallTokens :
        chunking = [NoChunking EXCEPT !.pc = "called", !.chunk_size = cs,
                                      !.chunk_overlap = ov, !.total_tokens = t]

\* chunk_text up to its loop: an empty text returns [], any other text is
\* encoded and the loop is entered with start = 0 < total_tokens
ChunkCall ==
    /\ chunking.pc = "called"
    /\ chunking' = [chunking EXCEPT
           !.pc = IF chunking.total_tokens = 0 THEN "done" ELSE "loop",
           !.start = 0, !.chunk_index = 0, !.chunks = <<>>]

\* one iteration of the loop of chunk_text, and the return when it ends.
\* A run that ends takes at most total_tokens iterations, since each of its
\* iterations starts at least one token further; a run is followed for
\* MaxIterations iterations, and one that is in the loop after that many
\* (pc = "loop", start < total_tokens) goes on in the code without end.
ChunkIterate ==
    /\ chunking.pc = "loop"
    /\ Len(chunking.chunks) < MaxIterations
    /\ LET total_tokens == chunking.total_tokens
           start == chunking.start
           end == SmallerOf(start + chunking.chunk_size, total_tokens)
           chunk == [token_count |-> SliceLen(total_tokens, start, end),
                     start_token |-> start, end_token |-> end,
                     chunk_index |-> chunking.chunk_index]
           nxt == next_start(end, chunking.chunk_overlap)
           break == \/ nxt >= total_tokens
                    \/ (end = total_tokens
                        /\ nxt + chunking.chunk_overlap >= total_tokens)
       IN  chunking' = [chunking EXCEPT
               !.chunks = Append(@, chunk),
               !.start = nxt,
               !.chunk_index = @ + 1,
               !.pc = IF break \/ ~(nxt < total_tokens) THEN "done" ELSE "loop"]

-----------------------------------------------------------------------------
(* A round trip of the vector store through its files                      *)

\* no call of the round trip made yet
NewTrip == [pc |-> "new", n |-> 0, before |-> NewStore, ret |-> FALSE]

InitTripVars == trip = NewTrip

-----------------------------------------------------------------------------
(* RAGAgent.execute (app/services/agent/rag_agent.py)                      *)

\* the tools of get_default_tools()
DefaultTools == {"search_documents", "get_sources", "create_task", "get_stats"}

ActionTypes == {"answer", "call_tool", "search", "clarify"}

\* what the awaited tool function does: returns a result, raises, or returns
\* a result that the formatting of the response cannot read
ToolOutcomes == {"ok", "raises", "bad_result"}

\* str(e) of the exception that each failure raises
ErrorText(failure) ==
    CASE failure = "arguments" -> "argument after ** must be a mapping"
      [] failure = "raises" -> "tool failed"
      [] failure = "bad_result" -> "'title'"

AgentResponse(action_taken, reasoning, tool_calls, error) ==
    [raised |-> FALSE, action_taken |-> action_taken, reasoning |-> reasoning,
     tool_calls |-> tool_calls, error |-> error]

\* execute without the check that the tool is registered: self.tools[name]
\* raises KeyError
execute_without_lookup(tools, decision, retrieved_context, outcome) ==
    IF decision.action = "call_tool" /\ decision.tool_name \notin tools
    THEN [raised |-> TRUE, action_taken |-> Absent, reasoning |-> Absent,
          tool_calls |-> 0, error |-> "KeyError", invoked |-> 0]
    ELSE [raised |-> FALSE, action_taken |-> decision.action,
          reasoning |-> "decision", tool_calls |-> 0, error |-> Absent,
          invoked |-> 0]

\* RAGAgent.execute.  tool_calls is the number of records in the response's
\* tool_calls, invoked the number of times a tool function ran.
execute(tools, decision, retrieved_context, outcome) ==
    CASE decision.action = "call_tool" ->
             IF decision.tool_name = Absent \/ decision.tool_name \notin tools
             THEN AgentResponse("answer", "Tool not available", 0,
                                "tool_not_found") @@ [invoked |-> 0]
             ELSE IF decision.tool_arguments.is_none
             THEN AgentResponse("answer", "Tool execution failed", 0,
                                ErrorText("arguments")) @@ [invoked |-> 0]
             ELSE IF outcome = "raises"
             THEN AgentResponse("answer", "Tool execution failed", 0,
                                ErrorText("raises")) @@ [invoked |-> 1]
             ELSE IF outcome = "bad_result"
             THEN AgentResponse("answer", "Tool execution failed", 1,
                                ErrorText("bad_result")) @@ [invoked |-> 1]
             ELSE AgentResponse("call_tool", "decision", 1, Absent)
                      @@ [invoked |-> 1]
      [] decision.action = "search" /\ "search_documents" \in tools ->
             IF outcome = "ok"
             THEN AgentResponse("search", "decision", 1, Absent)
                      @@ [invoked |-> 1]
             ELSE AgentResponse("answer", "Search failed", 0, ErrorText(outcome))
                      @@ [invoked |-> 1]
      [] decision.action = "clarify" ->
             AgentResponse("clarify", "decision", 0, Absent) @@ [invoked |-> 0]
      [] decision.action = "answer" ->
             AgentResponse("answer", "decision", 0, Absent) @@ [invoked |-> 0]
      [] OTHER ->
             AgentResponse("answer", "Unknown action type", 0, Absent)
                 @@ [invoked |-> 0]

NoExec ==
    [called |-> FALSE, tools |-> DefaultTools, decision |-> NoDecision,
     retrieved_context |-> <<>>, outcome |-> "ok",
     response |-> AgentResponse(Absent, Absent, 0, Absent) @@ [invoked |-> 0]]

InitExecVars == execCall = NoExec

\* execute is called with any decision and context, on an agent with the
\* default tools or with fewer
Execute ==
    \E tools \in {DefaultTools, DefaultTools \ {"search_documents"}},
       action \in ActionTypes,
       tool_name \in {Absent, "search_documents", "get_stats", "send_email"},
       tool_arguments \in {NoArguments, EmptyArguments},
       retrieved_context \in {<<>>, <<"item">>},
       outcome \in ToolOutcomes :
        LET decision == AgentDecision(action, tool_name, tool_arguments,
                                      FALSE, NoQueryText)
        IN  execCall' = [called |-> TRUE, tools |-> tools,
                         decision |-> decision,
                         retrieved_context |-> retrieved_context,
                         outcome |-> outcome,
                         response |-> execute(tools, decision,
                                              retrieved_context, outcome)]

-----------------------------------------------------------------------------
(* Token usage of agent query requests (gemini_agent.py, agent_v2.py)      *)

UsageReqs == {1, 2}

\* prompt_token_count and candidates_token_count of a model response
TokenInputs == {1, 2}
TokenOutputs == {1, 3}

\* TokenTracker.__init__
NewTokenTracker ==
    [total_input_tokens |-> 0, total_output_tokens |-> 0, total_requests |-> 0]

\* TokenTracker.add_usage
add_usage(t, input_tokens, output_tokens) ==
    [total_input_tokens |-> t.total_input_tokens + input_tokens,
     total_output_tokens |-> t.total_output_tokens + output_tokens,
     total_requests |-> t.total_requests + 1]

\* TokenTracker.get_stats
get_stats(t) ==
    [total_input_tokens |-> t.total_input_tokens,
     total_output_tokens |-> t.total_output_tokens,
     total_tokens |-> t.total_input_tokens + t.total_output_tokens,
     total_requests |-> t.total_requests]

\* the cost of a number of input and output tokens, in units of the price
\* of one input token (an output token costs twice as much)
Cost(input_tokens, output_tokens) == input_tokens + 2 * output_tokens

NoUsageReq ==
    [pc |-> "new", input_tokens |-> 0, output_tokens |-> 0, tokens_used |-> 0,
     cost |-> 0, trace_tokens |-> 0, trace_cost |-> 0]

InitUsageVars ==
    usage = [tracker |-> NewTokenTracker, req |-> [r \in UsageReqs |-> NoUsageReq]]

\* GeminiAgent.query up to the processing of the response: the model
\* answers request r and the usage of the answer is added to the tracker of
\* the one gemini_agent
QueryUsage(r) ==
    /\ usage.req[r].pc = "new"
    /\ \E input_tokens \in TokenInputs, output_tokens \in TokenOutputs :
           usage' = [usage EXCEPT
               !.tracker = add_usage(@, input_tokens, output_tokens),
               !.req[r] = [@ EXCEPT !.pc = "queried",
                                    !.input_tokens = input_tokens,
                                    !.output_tokens = output_tokens]]

\* query returns its payload with token_usage = token_tracker.get_stats();
\* the handler takes tokens_used and cost from it, adds the same numbers to
\* the request's trace (new, so the sums are the numbers added) and answers
ReportUsage(r) ==
    /\ usage.req[r].pc = "queried"
    /\ LET token_usage == get_stats(usage.tracker)
           total_tokens == token_usage.total_input_tokens
                               + token_usage.total_output_tokens
           estimated_cost == Cost(token_usage.total_input_tokens,
                                  token_usage.total_output_tokens)
       IN  usage' = [usage EXCEPT
               !.req[r] = [@ EXCEPT !.pc = "done",
                                    !.tokens_used = total_tokens,
                                    !.cost = estimated_cost,
                                    !.trace_tokens = total_tokens,
                                    !.trace_cost = estimated_cost]]

-----------------------------------------------------------------------------
(* Specifications *)

InitServiceVars ==
    /\ InitStoreVars
    /\ InitIngestVars
    /\ InitSqlVars
    /\ InitSessVars
    /\ InitSearchVars
    /\ InitLoopVars
    /\ InitAgentVars

\* no decide call is being looked at
NoDecideCall ==
    decideCall = [context |-> [user_query |-> <<>>, retrieved_context |-> <<>>],
                  decision |-> [NoDecision EXCEPT !.action = "done"]]

InitExtraVars ==
    /\ InitTaskVars
    /\ InitChunkVars
    /\ InitTripVars
    /\ InitExecVars
    /\ InitUsageVars

InitInfraVars ==
    /\ InitCacheVars
    /\ InitLlmVars
    /\ NoDecideCall
    /\ InitObsVars
    /\ InitLifeVars

Init ==
    /\ InitStoreVars
    /\ InitIngestVars
    /\ InitSqlVars
    /\ InitSessVars
    /\ InitSearchVars
    /\ InitLoopVars
    /\ InitAgentVars
    /\ InitInfraVars
    /\ InitExtraVars

\* One execute_query call, for every statement.
InitSQL ==
    /\ InitStoreVars
    /\ InitIngestVars
    /\ InitSqlCall
    /\ InitSessVars
    /\ InitSearchVars
    /\ InitLoopVars
    /\ InitAgentVars
    /\ InitInfraVars
    /\ InitExtraVars

NextSQL ==
    \/ (ExecuteQuery /\ UNCHANGED <<storeVars, ingestVars, sessVars, searchVars, loopVars, agentVars, infraVars, extraVars>>)

\* Calls on one vector store, one after the other.
NextStore ==
    \/ (CreateIndex("http") /\ UNCHANGED <<ingestVars, sqlVars, sessVars, searchVars, loopVars, agentVars, infraVars, extraVars>>)
    \/ (ClearIndex("http") /\ UNCHANGED <<ingestVars, sqlVars, sessVars, searchVars, loopVars, agentVars, infraVars, extraVars>>)
    \/ (AddVectors("http") /\ UNCHANGED <<ingestVars, sqlVars, sessVars, searchVars, loopVars, agentVars, infraVars, extraVars>>)
    \/ (SaveIndex("http") /\ UNCHANGED <<ingestVars, sqlVars, sessVars, searchVars, loopVars, agentVars, infraVars, extraVars>>)
    \/ (LoadIndex("http") /\ UNCHANGED <<ingestVars, sqlVars, sessVars, searchVars, loopVars, agentVars, infraVars, extraVars>>)

\* Rebuilds from the database among the other calls on the store.
NextRebuild ==
    \/ (CommitEmbedding /\ UNCHANGED <<ingestVars, sqlVars, sessVars, searchVars, loopVars, agentVars, infraVars, extraVars>>)
    \/ (Rebuild("http") /\ UNCHANGED <<ingestVars, sqlVars, sessVars, searchVars, loopVars, agentVars, infraVars, extraVars>>)
    \/ (ClearIndex("http") /\ UNCHANGED <<ingestVars, sqlVars, sessVars, searchVars, loopVars, agentVars, infraVars, extraVars>>)
    \/ (SaveIndex("http") /\ UNCHANGED <<ingestVars, sqlVars, sessVars, searchVars, loopVars, agentVars, infraVars, extraVars>>)
    \/ (LoadIndex("http") /\ UNCHANGED <<ingestVars, sqlVars, sessVars, searchVars, loopVars, agentVars, infraVars, extraVars>>)

\* Ingestion requests, one after the other.
NextIngest ==
    \/ (IngestStart /\ UNCHANGED <<storeVars, sqlVars, sessVars, searchVars, loopVars, agentVars, infraVars, extraVars>>)
    \/ (IngestNext /\ UNCHANGED <<storeVars, sqlVars, sessVars, searchVars, loopVars, agentVars, infraVars, extraVars>>)
    \/ (IngestReturn /\ UNCHANGED <<storeVars, sqlVars, sessVars, searchVars, loopVars, agentVars, infraVars, extraVars>>)

SpecStore == Init /\ [][NextStore]_vars

SpecRebuild == Init /\ [][NextRebuild]_vars

SpecIngest == Init /\ [][NextIngest]_vars

SpecSQL == InitSQL /\ [][NextSQL]_vars

NextSession ==
    \E r \in Reqs :
        \/ (Acquire(r) /\ UNCHANGED <<storeVars, ingestVars, sqlVars, searchVars, loopVars, agentVars, infraVars, extraVars>>)
        \/ (Write(r) /\ UNCHANGED <<storeVars, ingestVars, sqlVars, searchVars, loopVars, agentVars, infraVars, extraVars>>)
        \/ (HandlerReturns(r) /\ UNCHANGED <<storeVars, ingestVars, sqlVars, searchVars, loopVars, agentVars, infraVars, extraVars>>)
        \/ (HandlerRaises(r) /\ UNCHANGED <<storeVars, ingestVars, sqlVars, searchVars, loopVars, agentVars, infraVars, extraVars>>)
        \/ (Finalize(r) /\ UNCHANGED <<storeVars, ingestVars, sqlVars, searchVars, loopVars, agentVars, infraVars, extraVars>>)

SpecSession == Init /\ [][NextSession]_vars

\* One call of search or hybrid_search in the HTTP process.
InitSearch ==
    /\ InitSearchCall
    /\ InitIngestVars
    /\ InitSqlVars
    /\ InitSessVars
    /\ InitLoopVars
    /\ InitAgentVars
    /\ InitInfraVars
    /\ InitExtraVars

NextSearch ==
    \/ (Search("http") /\ UNCHANGED <<ingestVars, sqlVars, sessVars, loopVars, agentVars, infraVars, extraVars>>)
    \/ (HybridSearch("http") /\ UNCHANGED <<ingestVars, sqlVars, sessVars, loopVars, agentVars, infraVars, extraVars>>)

SpecSearch == InitSearch /\ [][NextSearch]_vars

\* The HTTP process and the task worker, each with its own vector store,
\* over one database and one pair of index files.
InitPipeline ==
    /\ vs = [p \in Procs |-> IF p = "http" THEN create_index(NewStore) ELSE NewStore]
    /\ disk = NoDisk
    /\ embRows = <<>>
    /\ lastCall = NoCall
    /\ InitIngestVars
    /\ InitSqlVars
    /\ InitSessVars
    /\ InitSearchVars
    /\ InitLoopVars
    /\ InitAgentVars
    /\ InitInfraVars
    /\ InitExtraVars

NextPipeline ==
    \/ (Startup("http") /\ UNCHANGED <<ingestVars, sqlVars, sessVars, searchVars, loopVars, agentVars, infraVars, extraVars>>)
    \/ (IngestDocumentsSync /\ UNCHANGED <<ingestVars, sqlVars, sessVars, searchVars, loopVars, agentVars, infraVars, extraVars>>)
    \/ (ProcessDocuments /\ UNCHANGED <<ingestVars, sqlVars, sessVars, searchVars, loopVars, agentVars, infraVars, extraVars>>)

SpecPipeline == InitPipeline /\ [][NextPipeline]_vars

\* Three handlers, each an ingest with rebuild or a search, scheduled on the
\* one event loop of the HTTP process.
NextLoop ==
    \E t \in Tasks :
        \/ (StartIngest(t) /\ UNCHANGED <<ingestVars, sqlVars, sessVars, agentVars, infraVars, extraVars>>)
        \/ (IngestDone(t) /\ UNCHANGED <<ingestVars, sqlVars, sessVars, agentVars, infraVars, extraVars>>)
        \/ (QueryDone(t) /\ UNCHANGED <<ingestVars, sqlVars, sessVars, agentVars, infraVars, extraVars>>)
        \/ (RebuildClear(t) /\ UNCHANGED <<ingestVars, sqlVars, sessVars, agentVars, infraVars, extraVars>>)
        \/ (RebuildAdd(t) /\ UNCHANGED <<ingestVars, sqlVars, sessVars, agentVars, infraVars, extraVars>>)
        \/ (RebuildSave(t) /\ UNCHANGED <<ingestVars, sqlVars, sessVars, agentVars, infraVars, extraVars>>)
        \/ (StartSearch(t) /\ UNCHANGED <<ingestVars, sqlVars, sessVars, agentVars, infraVars, extraVars>>)
        \/ (ReadStore(t) /\ UNCHANGED <<ingestVars, sqlVars, sessVars, agentVars, infraVars, extraVars>>)
        \/ (FinishSearch(t) /\ UNCHANGED <<ingestVars, sqlVars, sessVars, agentVars, infraVars, extraVars>>)

SpecLoop == InitPipeline /\ [][NextLoop]_vars

\* Two requests to an agent query endpoint, and the cache losing entries.
NextAgent ==
    \/ \E r \in AgentReqs :
           \/ (CacheCheck(r) /\ UNCHANGED <<storeVars, ingestVars, sqlVars, sessVars, searchVars, loopVars, infraVars, extraVars>>)
           \/ (SearchReturns(r) /\ UNCHANGED <<storeVars, ingestVars, sqlVars, sessVars, searchVars, loopVars, infraVars, extraVars>>)
           \/ (LLMReturns(r) /\ UNCHANGED <<storeVars, ingestVars, sqlVars, sessVars, searchVars, loopVars, infraVars, extraVars>>)
    \/ (CacheExpire /\ UNCHANGED <<storeVars, ingestVars, sqlVars, sessVars, searchVars, loopVars, infraVars, extraVars>>)
    \/ (CacheClear /\ UNCHANGED <<storeVars, ingestVars, sqlVars, sessVars, searchVars, loopVars, infraVars, extraVars>>)

SpecAgent == Init /\ [][NextAgent]_vars

\* get, set and clear calls on the query cache with four keys, and time
\* passing between them and inside a get.  A set stores another value than
\* the set before it did.
NextCache ==
    \/ \E query \in {<<"a">>, <<"b", " ">>} :
       \E kwargs \in {<<<<"top_k", 5>>, <<"history_count", 0>>>>,
                      <<<<"top_k", 5>>, <<"history_count", 1>>>>} :
           \/ \E dt \in {0, 1} :
                  (CacheGet(query, kwargs, dt) /\ UNCHANGED <<serviceVars, llmVars, decideVars, obsVars, lifeVars, extraVars>>)
           \/ \E result \in {IF ttlCache.sets % 2 = 0 THEN "v1" ELSE "v2"} :
                  (CacheSet(query, kwargs, result) /\ UNCHANGED <<serviceVars, llmVars, decideVars, obsVars, lifeVars, extraVars>>)
    \/ (CacheClearAll /\ UNCHANGED <<serviceVars, llmVars, decideVars, obsVars, lifeVars, extraVars>>)
    \/ (Tick /\ UNCHANGED <<serviceVars, llmVars, decideVars, obsVars, lifeVars, extraVars>>)

SpecCache == Init /\ [][NextCache]_vars

\* One set and then one get, for every way of writing the query and of
\* passing the parameters.
NextCacheKey ==
    \/ \E query \in CacheQueries, kwargs \in KwargLists :
           \/ \E dt \in {0, 1} :
                  (/\ ttlCache.sets = 1
                   /\ ttlCache.hits + ttlCache.misses = 0
                   /\ CacheGet(query, kwargs, dt)
                   /\ UNCHANGED <<serviceVars, llmVars, decideVars, obsVars, lifeVars, extraVars>>)
           \/ \E result \in CacheResults :
                  (/\ ttlCache.sets = 0
                   /\ CacheSet(query, kwargs, result)
                   /\ UNCHANGED <<serviceVars, llmVars, decideVars, obsVars, lifeVars, extraVars>>)
    \/ (CacheClearAll /\ UNCHANGED <<serviceVars, llmVars, decideVars, obsVars, lifeVars, extraVars>>)
    \/ (Tick /\ UNCHANGED <<serviceVars, llmVars, decideVars, obsVars, lifeVars, extraVars>>)

SpecCacheKey == Init /\ [][NextCacheKey]_vars

\* register_tool calls on a new dispatcher.
NextTools ==
    \E name \in ToolNames, function \in ToolFunctions,
       description \in ToolDescriptions :
        (RegisterTool(name, function, description)
         /\ UNCHANGED <<serviceVars, cacheVars, decideVars, obsVars, lifeVars, extraVars>>)

SpecTools == Init /\ [][NextTools]_vars

\* One GeminiAgent.query call, before or after the tools were registered.
NextGemini ==
    \/ (RegisterAllTools /\ UNCHANGED <<serviceVars, cacheVars, decideVars, obsVars, lifeVars, extraVars>>)
    \/ (GeminiSend /\ UNCHANGED <<serviceVars, cacheVars, decideVars, obsVars, lifeVars, extraVars>>)
    \/ (GeminiPart /\ UNCHANGED <<serviceVars, cacheVars, decideVars, obsVars, lifeVars, extraVars>>)
    \/ (GeminiReturn /\ UNCHANGED <<serviceVars, cacheVars, decideVars, obsVars, lifeVars, extraVars>>)

SpecGemini == Init /\ [][NextGemini]_vars

\* One decide call, for every context.
InitDecide ==
    /\ InitServiceVars
    /\ InitCacheVars
    /\ InitLlmVars
    /\ InitDecideVars
    /\ InitObsVars
    /\ InitLifeVars
    /\ InitExtraVars

NextDecide == Decide /\ UNCHANGED <<serviceVars, cacheVars, llmVars, obsVars, lifeVars, extraVars>>

SpecDecide == InitDecide /\ [][NextDecide]_vars

\* record_request calls on the metrics collector.
NextMetrics ==
    \E status_code \in StatusCodes \cup {500}, tokens \in TokenCounts,
       cache_hit \in BOOLEAN :
        (RecordRequest(RequestData("POST", "/api/v1/agent/query", status_code,
                                   5, tokens, tokens, cache_hit))
         /\ UNCHANGED <<serviceVars, cacheVars, llmVars, decideVars, lifeVars, extraVars>>)

SpecMetrics == Init /\ [][NextMetrics]_vars

\* Two requests through the observability middleware.
NextMiddleware ==
    \E r \in MwReqs :
        \/ \E path \in MwPaths :
               (MwDispatch(r, path)
                /\ UNCHANGED <<serviceVars, cacheVars, llmVars, decideVars, lifeVars, extraVars>>)
        \/ \E status_code \in StatusCodes, tokens \in TokenCounts,
              cache_hit \in BOOLEAN :
               (MwReturns(r, status_code, tokens, cache_hit)
                /\ UNCHANGED <<serviceVars, cacheVars, llmVars, decideVars, lifeVars, extraVars>>)
        \/ (MwRaises(r)
            /\ UNCHANGED <<serviceVars, cacheVars, llmVars, decideVars, lifeVars, extraVars>>)

SpecMiddleware == Init /\ [][NextMiddleware]_vars

\* The lifespan of the HTTP process, started again after it ended, with
\* vectors added to the store while the application runs.
NextLifespan ==
    \/ (LifeStartup
        /\ UNCHANGED <<ingestVars, sqlVars, sessVars, searchVars, loopVars,
                       agentVars, cacheVars, llmVars, decideVars, obsVars, extraVars>>)
    \/ (life.pc = "running" /\ AddVectors("http")
        /\ UNCHANGED <<ingestVars, sqlVars, sessVars, searchVars, loopVars,
                       agentVars, infraVars, extraVars>>)
    \/ (LifeShutdown
        /\ UNCHANGED <<ingestVars, sqlVars, sessVars, searchVars, loopVars,
                       agentVars, cacheVars, llmVars, decideVars, obsVars, extraVars>>)

SpecLifespan == Init /\ [][NextLifespan]_vars

\* Background tasks run by the worker, one after the other.
NextTasks ==
    \E name \in TaskNames :
        \E failure \in TaskFailures(name) :
            (RunTask(name, failure) /\ UNCHANGED <<serviceVars, infraVars, chunkVars, tripVars, execVars, usageVars>>)

SpecTasks == Init /\ [][NextTasks]_vars

\* chunk_text of the module's chunking_service (512 / 50) on any text.
InitChunking ==
    /\ InitServiceVars
    /\ InitInfraVars
    /\ InitTaskVars
    /\ InitTripVars
    /\ InitExecVars
    /\ InitUsageVars
    /\ InitChunkDefault

NextChunking ==
    \/ (ChunkCall /\ UNCHANGED <<serviceVars, infraVars, taskVars, tripVars, execVars, usageVars>>)
    \/ (ChunkIterate /\ UNCHANGED <<serviceVars, infraVars, taskVars, tripVars, execVars, usageVars>>)

SpecChunking == InitChunking /\ [][NextChunking]_vars

\* chunk_text of a service with any settings; the interpreter keeps running
\* the call, so a step that can be taken is taken.
InitChunkingAny ==
    /\ InitServiceVars
    /\ InitInfraVars
    /\ InitTaskVars
    /\ InitTripVars
    /\ InitExecVars
    /\ InitUsageVars
    /\ InitChunkAny

SpecChunkingFair ==
    InitChunkingAny /\ [][NextChunking]_vars /\ WF_vars(NextChunking)

\* A round trip of the store through its files: vectors are added to the
\* new store, in one call or several; save_index is called until it returns
\* without raising; then clear_index, then load_index.  trip follows the
\* calls: how many vectors were added, the store as it was before
\* clear_index, and what load_index returned.
NextRoundTrip ==
    \/ (/\ trip.pc \in {"new", "added"}
        /\ AddVectors("http")
        /\ trip' = [trip EXCEPT
               !.n = total_vectors(vs'["http"]),
               !.pc = IF total_vectors(vs'["http"]) >= 1 THEN "added" ELSE @]
        /\ UNCHANGED <<ingestVars, sqlVars, sessVars, searchVars, loopVars, agentVars, infraVars, taskVars, chunkVars, execVars, usageVars>>)
    \/ (/\ trip.pc = "added"
        /\ SaveIndex("http")
        /\ trip' = [trip EXCEPT
               !.pc = IF disk' = save_index(vs["http"], disk, "ok").disk
                      THEN "saved" ELSE @]
        /\ UNCHANGED <<ingestVars, sqlVars, sessVars, searchVars, loopVars, agentVars, infraVars, taskVars, chunkVars, execVars, usageVars>>)
    \/ (/\ trip.pc = "saved"
        /\ ClearIndex("http")
        /\ trip' = [trip EXCEPT !.pc = "cleared", !.before = vs["http"]]
        /\ UNCHANGED <<ingestVars, sqlVars, sessVars, searchVars, loopVars, agentVars, infraVars, taskVars, chunkVars, execVars, usageVars>>)
    \/ (/\ trip.pc = "cleared"
        /\ LoadIndex("http")
        /\ trip' = [trip EXCEPT !.pc = "loaded",
                                !.ret = load_index(vs["http"], disk).ret]
        /\ UNCHANGED <<ingestVars, sqlVars, sessVars, searchVars, loopVars, agentVars, infraVars, taskVars, chunkVars, execVars, usageVars>>)

SpecRoundTrip == Init /\ [][NextRoundTrip]_vars

\* Calls of RAGAgent.execute, one after the other.
NextExecute ==
    Execute /\ UNCHANGED <<serviceVars, infraVars, taskVars, chunkVars, tripVars, usageVars>>

SpecExecute == Init /\ [][NextExecute]_vars

\* The HTTP process through its lifespans while the task worker ingests
\* documents and rebuilds the index files.
NextDeploy ==
    \/ (LifeStartup
        /\ UNCHANGED <<ingestVars, sqlVars, sessVars, searchVars, loopVars,
                       agentVars, cacheVars, llmVars, decideVars, obsVars, extraVars>>)
    \/ (ProcessDocuments
        /\ UNCHANGED <<ingestVars, sqlVars, sessVars, searchVars, loopVars,
                       agentVars, infraVars, extraVars>>)
    \/ (LifeShutdown
        /\ UNCHANGED <<ingestVars, sqlVars, sessVars, searchVars, loopVars,
                       agentVars, cacheVars, llmVars, decideVars, obsVars, extraVars>>)

SpecDeploy == Init /\ [][NextDeploy]_vars

\* Two agent query requests, each calling the model and reporting its usage;
\* a request awaits its tool calls between the two.
NextUsage ==
    \E r \in UsageReqs :
        \/ (QueryUsage(r)
            /\ UNCHANGED <<serviceVars, infraVars, taskVars, chunkVars, tripVars, execVars>>)
        \/ (ReportUsage(r)
            /\ UNCHANGED <<serviceVars, infraVars, taskVars, chunkVars, tripVars, execVars>>)

SpecUsage == Init /\ [][NextUsage]_vars

Spec == SpecStore

-----------------------------------------------------------------------------
\* the chunk-id list of store s is parallel to its index
Parallel(s) ==
    /\ Len(s.chunk_ids) = total_vectors(s)
    /\ \A i \in 1..Len(s.index) :
           i <= Len(s.chunk_ids) => s.index[i].of = s.chunk_ids[i]

(* C2: after any sequence of create_index, add_vectors, clear_index,       *)
(* save_index and load_index calls, also ones that raise or return False,  *)
(* the chunk-id list has as many entries as the index holds vectors, and   *)
(* the vector at position i belongs to chunk_ids[i].                       *)

C2_ChunkIdsParallelToIndex == \A p \in Procs : Parallel(vs[p])

-----------------------------------------------------------------------------
\* what a rebuild_vector_index call in process p leaves behind
RebuildPost(p) ==
    LET rows == MatchingRows(embRows, lastCall'.arg)
    IN  /\ rows = <<>> =>
               /\ lastCall'.ret = 0
               /\ vs' = vs
               /\ disk' = disk
        /\ rows # <<>> /\ lastCall'.ret # Raised =>
               /\ lastCall'.ret = Len(rows)
               /\ vs'[p].has_index
               /\ Len(vs'[p].index) = Len(rows)
               /\ \A i \in 1..Len(rows) :
                      vs'[p].index[i] = Entry(rows[i].vec, rows[i].chunk_id)
               /\ vs'[p].chunk_ids = RowChunkIds(rows)
               /\ disk'.indexFile = GoodFile(vs'[p].index)
               /\ disk'.metaFile = GoodFile(vs'[p].chunk_ids)

(* C7: rebuild_vector_index returns 0 and leaves the in-memory index and   *)
(* the index files unchanged when no embedding row matches; otherwise,     *)
(* when it returns, it returns the number n of matching rows, the store    *)
(* holds exactly those n vectors with their chunk ids, whatever it held    *)
(* before, and the index files hold the same content.                      *)

C7_RebuildReplacesIndex ==
    [][lastCall'.op = "rebuild" => RebuildPost("http")]_vars

\* a rebuild with a doc_type filter has returned 1 on a store that held
\* two vectors of earlier calls
C7_Witness ==
    /\ lastCall.op = "rebuild"
    /\ lastCall.arg = "jira"
    /\ lastCall.ret = 1
    /\ Len(embRows) = 2
    /\ total_vectors(vs["http"]) = 1

-----------------------------------------------------------------------------
\* the rows of batch b among rows
BatchRows(rows, b) ==
    {r \in rows.docs \cup rows.chunks \cup rows.embs : r[1] = b}

(* C1: if ingest_documents fails on some document of a batch, it rolls     *)
(* back, re-raises and processes no later document, and after the failure  *)
(* no document, chunk or embedding of that batch is persisted, the         *)
(* documents ingested before the failing one included.                     *)

C1_FailedBatchLeavesNothing ==
    ingest.pc = "raised" =>
        /\ dbPending = NoRows
        /\ BatchRows(dbRows, ingest.no) = {}

-----------------------------------------------------------------------------
(* C3: execute_query sends a statement to the database only after          *)
(* validate_query has accepted it; for a statement that fails validation   *)
(* it raises a validation error and makes no database call.                *)

C3_OnlyValidatedStatementsSent ==
    /\ \A i \in 1..Len(sqlSent) : validate_query(sqlSent[i])
    /\ sql.pc = "done" /\ ~validate_query(sql.query) =>
           /\ sql.outcome = "validation_error"
           /\ sqlSent = <<>>

\* "SELECT; DELETE FROM" has been rejected
C3_Witness ==
    /\ sql.pc = "done"
    /\ sql.query = <<"SELECT", ";", "DELETE", "FROM">>
    /\ sql.outcome = "validation_error"
    /\ sqlSent = <<>>

-----------------------------------------------------------------------------
(* C4: when a request's unit of work has ended, its session obtained from  *)
(* get_db or get_db_session is closed; it has been committed exactly when  *)
(* the unit of work returned without error and the commit went through;    *)
(* when the unit of work raised, it has been rolled back and the error     *)
(* re-raised.                                                              *)

C4_SessionLifecycle ==
    \A r \in Reqs :
        req[r].pc = "done" =>
            /\ req[r].sn.closed
            /\ req[r].sn.committed <=> (req[r].uow = "returned" /\ req[r].result = "ok")
            /\ req[r].uow = "raised" =>
                   req[r].sn.rolled_back /\ req[r].result = "raised"

-----------------------------------------------------------------------------
\* the candidates the vector store gives the search of a call
SearchCandidates(call) ==
    vs_search(vs["http"], Embedding(call.arg.query), call.arg.top_k * 2)

(* C8 as stated: every call of SearchService.search that returns normally  *)
(* has added exactly one SearchQuery row, recording the query text, the    *)
(* requested top_k and the number of results returned.                     *)

C8_EverySearchAudited ==
    [][lastCall'.op = "search" /\ lastCall'.ret # Raised =>
          searchQueries' = Append(searchQueries,
              SearchQuery(lastCall'.arg.query, lastCall'.arg.top_k, lastCall'.ret))]_vars

(* C8 amended: a call of SearchService.search that returns normally has    *)
(* added exactly one SearchQuery row (query text, requested top_k, number  *)
(* of results returned) when the vector store gave at least one            *)
(* candidate; when the store gave none, it returns no results and adds no  *)
(* row.                                                                    *)

C8_SearchAuditedWhenCandidates ==
    [][lastCall'.op = "search" /\ lastCall'.ret # Raised =>
          IF SearchCandidates(lastCall') # <<>>
          THEN searchQueries' = Append(searchQueries,
                   SearchQuery(lastCall'.arg.query, lastCall'.arg.top_k, lastCall'.ret))
          ELSE lastCall'.ret = 0 /\ searchQueries' = searchQueries]_vars

\* search("q2", top_k = 2) has returned two results; its row follows an
\* earlier one
C8_Witness ==
    /\ lastCall.op = "search"
    /\ lastCall.ret = 2
    /\ searchQueries = <<SearchQuery("q1", 1, 1), SearchQuery("q2", 2, 2)>>

\* search has returned normally from an empty store
C8_WitnessNoCandidates ==
    /\ lastCall.op = "search"
    /\ lastCall.ret = 0
    /\ Len(embRows) = 2
    /\ Len(vs["http"].index) = 0
    /\ searchQueries = <<SearchQuery("q1", 1, 1)>>

-----------------------------------------------------------------------------
(* C9 as stated: a call of SearchService.hybrid_search persists no         *)
(* SearchQuery row: the persisted rows are the same before and after.      *)

C9_HybridPersistsNothing ==
    [][lastCall'.op = "hybrid_search" => searchQueries' = searchQueries]_vars

\* the audit row of the semantic search that a hybrid_search call runs
SemanticRow(call) ==
    search(embRows, vs["http"], call.arg.query, call.arg.top_k * 2,
           NoFilter, "none").audit

(* C9 amended: hybrid_search adds no SearchQuery row of its own, but the   *)
(* semantic search it runs does: when the vector store gives at least one  *)
(* candidate, a call that returns normally has added exactly one row, with *)
(* the query text, twice the requested top_k and the number of semantic    *)
(* results; a call that raises has added that row or none; when the store  *)
(* gives no candidate the rows are unchanged.                              *)

C9_HybridPersistsSemanticRow ==
    [][lastCall'.op = "hybrid_search" =>
          /\ lastCall'.ret # Raised =>
                 searchQueries' = searchQueries \o SemanticRow(lastCall')
          /\ lastCall'.ret = Raised =>
                 \/ searchQueries' = searchQueries
                 \/ searchQueries' = searchQueries \o SemanticRow(lastCall')]_vars

\* hybrid_search("q1", top_k = 1) has returned one result and left a row
\* with top_k = 2
C9_Witness ==
    /\ lastCall.op = "hybrid_search"
    /\ lastCall.arg = SearchCall("q1", 1)
    /\ lastCall.ret = 1
    /\ searchQueries = <<SearchQuery("q1", 1, 1), SearchQuery("q1", 2, 2)>>

-----------------------------------------------------------------------------
\* the chunk ids a search in the HTTP process returns for a query
HttpSearchIds(query) ==
    LET r == search(embRows, vs["http"], query, Len(embRows), NoFilter, "none")
    IN  {r.results[i].chunk_id : i \in 1..Len(r.results)}

(* C5: once a document has been ingested with its embedding and the index  *)
(* rebuild has completed, in the HTTP process (synchronous ingest) or in   *)
(* the task worker (process_documents), a search served by the HTTP        *)
(* process returns the ingested chunks.                                    *)

C5_HttpSearchFindsIngested ==
    /\ lastCall.op \in {"ingest_documents_sync", "process_documents"}
    /\ lastCall.ret # Raised
    => \A query \in QueryTexts : HttpSearchIds(query) = RowIds(embRows)

-----------------------------------------------------------------------------
(* C6 as stated: within the HTTP process a search that runs concurrently   *)
(* with rebuild_vector_index can read the vector store after the rebuild   *)
(* cleared it and before it refilled it, and a second rebuild can take its *)
(* steps while the first is between its clear, add and save.               *)

C6_SearchCanSeePartialStore ==
    \A t \in Tasks, u \in Tasks :
        /\ task[t].pc = "cleared" /\ task[u].pc = "embedding" =>
               ENABLED ReadStore(u)
        /\ task[t].pc \in {"cleared", "added"} /\ task[u].pc = "querying" =>
               ENABLED QueryDone(u)

(* C6 amended: within the HTTP process the clear, add and save steps of    *)
(* rebuild_vector_index run without an await between them, so the handler  *)
(* holds the event loop from the result of its query to the save: no       *)
(* search reads the store between the clear and the refill, and no two     *)
(* rebuilds are between their clear, add and save at the same time.        *)
(* Searches and rebuilds interleave only at their await points.            *)

C6_RebuildStepsNotInterleaved ==
    \A t \in Tasks :
        /\ ~task[t].partial
        /\ task[t].pc \in {"fetched", "cleared", "added"} =>
               /\ running = t
               /\ \A u \in Tasks \ {t} : task[u].pc \in AwaitPoints

\* a search has read the store while an ingest with rebuild is under way
C6_Witness ==
    \E t \in Tasks, u \in Tasks :
        /\ task[t].kind = "rebuild" /\ task[t].pc = "querying"
        /\ task[u].kind = "search" /\ task[u].pc = "fetching"

-----------------------------------------------------------------------------
\* in the log e every `then' comes after a `first'
Before(e, first, then) ==
    \A i \in 1..Len(e) : e[i] = then => \E j \in 1..(i - 1) : e[j] = first

(* C10: within one request to an agent query endpoint the search starts    *)
(* only after a cache miss, the LLM is called only after the search        *)
(* returned, and the cache is written only after the LLM call returned; on *)
(* a cache hit the cached response is returned, the trace of the request  *)
(* (when the middleware has started one) is marked as a cache hit, and     *)
(* neither search, LLM call nor cache store happens.                       *)

C10_AgentStepsInOrder ==
    \A r \in AgentReqs :
        LET e == agent[r].events
        IN  /\ Before(e, "cache_miss", "search_start")
            /\ Before(e, "search_end", "llm_start")
            /\ Before(e, "llm_end", "cache_store")
            /\ agent[r].pc # "new" /\ agent[r].cached # Absent =>
                   /\ agent[r].pc = "done"
                   /\ agent[r].response = agent[r].cached
                   /\ agent[r].traced => agent[r].cache_hit
                   /\ e = <<"cache_hit">>

\* request 1 went through search, LLM call and cache store; request 2 was
\* then served the cached response
C10_Witness ==
    /\ agent[1].events = <<"cache_miss", "search_start", "search_end",
                           "llm_start", "llm_end", "cache_store">>
    /\ agent[1].response = "a1"
    /\ agent[2].events = <<"cache_hit">>
    /\ agent[2].response = "a1"
    /\ agent[2].cache_hit

-----------------------------------------------------------------------------
\* the query as the key sees it: trimmed and lower-cased
Normalised(query) ==
    LET stripped == RStrip(LStrip(query))
    IN  [i \in DOMAIN stripped |-> Lower(stripped[i])]

\* the name-to-value mapping that a list of keyword arguments passes
Mapping(kwargs) == {kwargs[i] : i \in DOMAIN kwargs}

(* C11: a get made after a set, the entry still being in the cache,        *)
(* returns the value that was set whenever the two queries are equal after *)
(* trimming and lower-casing and the two calls passed the same name-to-    *)
(* value mapping, in whatever order.                                       *)

C11_GetFindsEquivalentKey ==
    [][(/\ cacheCall.op = "set"
        /\ cacheCall'.op = "get"
        /\ ttlCache.links # <<>>
        /\ clock' < ttlCache.links[Len(ttlCache.links)].expires
        /\ Normalised(cacheCall'.query) = Normalised(cacheCall.query)
        /\ Mapping(cacheCall'.kwargs) = Mapping(cacheCall.kwargs))
       => cacheCall'.ret = cacheCall.result]_vars

\* a get returned the value set under another spelling of the same key
C11_Witness ==
    /\ cacheCall.op = "get"
    /\ cacheCall.query = <<" ", "A">>
    /\ cacheCall.kwargs = <<<<"history_count", 0>>, <<"top_k", 5>>>>
    /\ cacheCall.ret \in CacheResults
    /\ \E p \in lastSet :
           p[1] = QueryCache_generate_key(<<"a">>,
                      <<<<"top_k", 5>>, <<"history_count", 0>>>>)

-----------------------------------------------------------------------------
\* the keys of the links, least recently used first
LinkKeys(links) == [i \in DOMAIN links |-> links[i].key]

\* the order of use after that key was used
UsedLast(keys, key) == Append(SelectSeq(keys, LAMBDA k : k # key), key)

\* the key that the call made by this step was about
CalledKey == QueryCache_generate_key(cacheCall'.query, cacheCall'.kwargs)

(* C12: the query cache never holds more entries than its capacity; a get  *)
(* hit and a set make their key the most recently used one; and a set of a *)
(* new key into a cache full of unexpired entries evicts the least         *)
(* recently used of them and nothing else.                                 *)

C12_CapacityAndLRUEviction ==
    /\ [](Len(ttlCache.links) <= max_size)
    /\ [][LET keys == LinkKeys(ttlCache.links)
              live == LinkKeys(expire(ttlCache.links, clock))
              known == \E i \in DOMAIN live : live[i] = CalledKey
          IN  /\ ttlCache'.hits = ttlCache.hits + 1
                    => LinkKeys(ttlCache'.links) = UsedLast(keys, CalledKey)
              /\ ttlCache'.misses = ttlCache.misses + 1
                    => ttlCache'.links = ttlCache.links
              /\ (ttlCache'.sets = ttlCache.sets + 1
                  /\ (known \/ Len(live) < max_size))
                    => LinkKeys(ttlCache'.links) = UsedLast(live, CalledKey)
              /\ (ttlCache'.sets = ttlCache.sets + 1
                  /\ ~known /\ Len(live) = max_size)
                    => LinkKeys(ttlCache'.links)
                           = Append(Tail(live), CalledKey)]_vars

\* a set has evicted an unexpired key although a key set before it is still
\* there: the older one had been read since
C12_Witness ==
    /\ cacheCall.op = "set"
    /\ Len(ttlCache.links) = max_size
    /\ ttlCache.hits >= 1
    /\ \E p \in lastSet, q \in lastSet :
           /\ \A i \in DOMAIN ttlCache.links : ttlCache.links[i].key # p[1]
           /\ \E i \in DOMAIN ttlCache.links : ttlCache.links[i].key = q[1]
           /\ q[2] < p[2]
           /\ clock < p[2] + ttl_seconds

-----------------------------------------------------------------------------
\* the times at which the key of the call made by this step was last set
SetTimes == {p[2] : p \in {q \in lastSet : q[1] = CalledKey}}

\* this step is a get call
GetStep ==
    \/ ttlCache'.hits = ttlCache.hits + 1
    \/ ttlCache'.misses = ttlCache.misses + 1

(* C13: a get that follows the set of its key and ends before the time to  *)
(* live has elapsed returns the value that was set; a get made when the    *)
(* time to live has elapsed since its key was last set returns absent and  *)
(* is counted as a miss, not as a hit.                                     *)

C13_EntryLivesForTTL ==
    [][GetStep =>
          /\ (/\ cacheCall.op = "set"
              /\ CalledKey = QueryCache_generate_key(cacheCall.query,
                                                     cacheCall.kwargs)
              /\ \A t \in SetTimes : clock' < t + ttl_seconds)
                => cacheCall'.ret = cacheCall.result
          /\ (\E t \in SetTimes : clock >= t + ttl_seconds)
                => /\ cacheCall'.ret = Absent
                   /\ ttlCache'.misses = ttlCache.misses + 1
                   /\ ttlCache'.hits = ttlCache.hits]_vars

\* a get has missed a key whose expired link was still in the cache
C13_Witness ==
    /\ cacheCall.op = "get"
    /\ cacheCall.ret = Absent
    /\ ttlCache.misses >= 1
    /\ LET key == QueryCache_generate_key(cacheCall.query, cacheCall.kwargs)
       IN  /\ \E p \in lastSet : p[1] = key /\ clock >= p[2] + ttl_seconds
           /\ \E i \in DOMAIN ttlCache.links :
                  /\ ttlCache.links[i].key = key
                  /\ ttlCache.links[i].expires <= clock

-----------------------------------------------------------------------------
\* the payload of a returned query is the one of the except clause
FailurePayload ==
    /\ gem.payload.success = FALSE
    /\ "error" \in DOMAIN gem.payload
    /\ gem.payload.tool_calls = <<>>
    /\ DOMAIN success_payload(<<>>, <<>>, 0, 0) \subseteq DOMAIN gem.payload

(* C14 as stated: whatever fails during a query, the model call, the       *)
(* validation or the dispatch of a tool call, or the follow-up call, the   *)
(* query returns the failure payload.                                      *)

C14_AnyFailureGivesFailurePayload ==
    (gem.pc = "returned" /\ gem.failed # {}) => FailurePayload

(* C14 amended: query never raises.  When the model call or the follow-up  *)
(* call raises, it returns a payload with success = false, an error        *)
(* string, an empty tool-call list and the fields of a successful payload. *)
(* A tool call that fails validation or whose tool fails does not fail the *)
(* query: it is recorded in the tool-call list with success = false, and   *)
(* the payload has success = true and no error field.                      *)

C14_FailurePayloadWhenACallRaises ==
    /\ gem.pc \in {"idle", "parts", "returned"}
    /\ gem.pc = "returned" =>
          IF gem.failed \cap {"model", "followup"} # {}
          THEN FailurePayload
          ELSE /\ gem.payload.success = TRUE
               /\ "error" \notin DOMAIN gem.payload
               /\ gem.payload.tool_calls = gem.tool_calls
               /\ gem.failed # {} =>
                      \E i \in DOMAIN gem.payload.tool_calls :
                          ~gem.payload.tool_calls[i].success

\* the follow-up call raised after a tool had been executed
C14_Witness ==
    /\ gem.pc = "returned"
    /\ "followup" \in gem.failed
    /\ gem.tool_calls # <<>>
    /\ gem.payload.success = FALSE

(* C15: within one query call at most one follow-up function-response      *)
(* message is sent to the model, however many function-call parts the      *)
(* response has and whatever the follow-up reply contains.                 *)

C15_AtMostOneFollowUp == gem.followups <= 1

(* C16: after any sequence of register_tool calls the dispatcher holds     *)
(* exactly one function and exactly one schema per registered name, also   *)
(* when a name was registered again: the schema list has one entry per     *)
(* name of the name-to-function map.                                       *)

C16_OneSchemaPerName ==
    /\ Len(dispatcher.tool_schemas) = Cardinality(DOMAIN dispatcher.tools)
    /\ \A n \in DOMAIN dispatcher.tools :
           Cardinality({i \in DOMAIN dispatcher.tool_schemas :
                            dispatcher.tool_schemas[i].name = n}) = 1

-----------------------------------------------------------------------------
\* a keyword of that family occurs in the lower-cased query of the call
FamilyMatches(action) ==
    LET query == [i \in DOMAIN decideCall.context.user_query |->
                     Lower(decideCall.context.user_query[i])]
    IN  \E i \in DOMAIN action_keywords :
            /\ action_keywords[i].action = action
            /\ \E keyword \in action_keywords[i].keywords :
                   Occurs(keyword, query)

(* C17: decide follows a fixed priority.  With retrieved items in the      *)
(* context it answers; otherwise the first of the families search,         *)
(* sources, stats, task that has a keyword in the lower-cased query        *)
(* decides: search_documents with the raw query and top_k 5, get_sources,  *)
(* get_stats, or a clarification; with no family matching it decides a     *)
(* knowledge-base search with the raw query.  No decision names the        *)
(* create_task tool.                                                       *)

C17_DecidePriority ==
    LET d == decideCall.decision
        raw == decideCall.context.user_query
    IN  d.action \notin {"none", "done"} =>
          /\ d.tool_name # "create_task"
          /\ IF decideCall.context.retrieved_context # <<>>
             THEN d.action = "answer"
             ELSE IF FamilyMatches("search")
             THEN /\ d.action = "call_tool"
                  /\ d.tool_name = "search_documents"
                  /\ d.tool_arguments = ToolArguments(raw, 5)
             ELSE IF FamilyMatches("sources")
             THEN d.action = "call_tool" /\ d.tool_name = "get_sources"
             ELSE IF FamilyMatches("stats")
             THEN d.action = "call_tool" /\ d.tool_name = "get_stats"
             ELSE IF FamilyMatches("task")
             THEN d.action = "clarify"
             ELSE d.action = "search" /\ d.context_query = raw

\* a query with a keyword of two families was decided by the earlier one,
\* and the tool was given the query as the user wrote it
C17_Witness ==
    /\ decideCall.context.user_query = <<"create", "Search">>
    /\ decideCall.context.retrieved_context = <<>>
    /\ decideCall.decision.tool_name = "search_documents"
    /\ decideCall.decision.tool_arguments.query = <<"create", "Search">>

-----------------------------------------------------------------------------
(* C18: for every request that the middleware traces, whether the handler  *)
(* returned a response or raised, the middleware has ended the trace and   *)
(* has forwarded exactly one record to the metrics collector, after it     *)
(* ended the trace.                                                        *)

C18_OneRecordPerTracedRequest ==
    \A r \in MwReqs :
        mw[r].pc \in {"responded", "raised"} =>
            /\ mw[r].trace.ended
            /\ mw[r].events = <<"trace_end", "record">>

\* the records that the request list should hold: the last RequestsKept of
\* all that were recorded
LastRecorded ==
    IF Len(recorded) > RequestsKept
    THEN SubSeq(recorded, Len(recorded) - RequestsKept + 1, Len(recorded))
    ELSE recorded

(* C19: after any sequence of record_request calls the request list holds  *)
(* at most as many entries as the collector keeps, namely the most         *)
(* recently recorded ones in arrival order, and the total-requests counter *)
(* equals the number of record_request calls made.                         *)

C19_RequestListKeepsMostRecent ==
    /\ Len(metrics.requests) <= RequestsKept
    /\ metrics.requests = LastRecorded
    /\ metrics.usage_stats.total_requests = Len(recorded)

\* more requests were recorded than are kept, and the one dropped differs
\* from the ones kept
C19_Witness ==
    /\ Len(recorded) > RequestsKept
    /\ Len(metrics.requests) = RequestsKept
    /\ \A i \in DOMAIN metrics.requests : metrics.requests[i] # recorded[1]

-----------------------------------------------------------------------------
(* C20: when the lifespan has ended, after a normal run or after a startup *)
(* step failed, all three shutdown steps were executed: the RAG shutdown,  *)
(* the cache-client disconnect and the database engine close, whatever     *)
(* step failed.                                                            *)

C20_AllShutdownStepsRun ==
    life.pc = "ended" => life.steps = <<"rag", "redis", "db">>

\* C21: no background task raises out of its top-level function: every run
\* returns an envelope, and a run in which something failed returns one with
\* status "failed" and the error text.
C21_TasksNeverRaise ==
    \A i \in 1..Len(taskLog) :
        /\ ~taskLog[i].raised
        /\ taskLog[i].error # "" => taskLog[i].status = "failed"

\* the token positions of a chunk's window, tokens[start_token:end_token]
C22_Window(c) == [i \in 1..(c.end_token - c.start_token) |-> c.start_token + i - 1]

\* the windows one after the other, each later one without its first
\* DefaultChunkOverlap tokens
RECURSIVE C22_Joined(_)
C22_Joined(chunks) ==
    IF Len(chunks) = 0 THEN <<>>
    ELSE IF Len(chunks) = 1 THEN C22_Window(chunks[1])
    ELSE LET last == C22_Window(chunks[Len(chunks)])
         IN  C22_Joined(SubSeq(chunks, 1, Len(chunks) - 1))
                 \o SubSeq(last, DefaultChunkOverlap + 1, Len(last))

C24_SaveClearLoadRestores ==
    trip.pc = "loaded" =>
        LET s == vs["http"]
        IN  /\ trip.ret
            /\ s = trip.before
            /\ trip.n >= 1
            /\ total_vectors(s) = trip.n
            /\ s.chunk_ids = trip.before.chunk_ids
            /\ \A i \in 1..Len(trip.before.index) :
                   LET hits == vs_search(s, trip.before.index[i].v, 1)
                   IN  /\ Len(hits) = 1
                       /\ \E j \in 1..Len(trip.before.index) :
                              /\ trip.before.index[j].v = trip.before.index[i].v
                              /\ trip.before.index[j].of = hits[1].chunk_id

C24_Witness ==
    /\ trip.pc = "loaded"
    /\ trip.n = 2
    /\ vs["http"].chunk_ids = <<2, 1>>
    /\ disk.metaFile = GoodFile(<<2, 1>>)

C26_GaugeCountsRequestsInFlight ==
    /\ active_requests = Cardinality({r \in MwReqs : mw[r].pc = "handling"})
    /\ active_requests >= 0
    /\ (\A r \in MwReqs : mw[r].pc # "handling") => active_requests = 0

\* one request ended by an exception while the other is still in flight
C26_Witness ==
    /\ mw[1].pc = "raised"
    /\ mw[2].pc = "handling"
    /\ active_requests = 1

\* C27: a cache-miss request whose search does not fail completes normally
\* (LLM call, cache store, response 200) also when no request trace is
\* active.
C27_UntracedMissCompletes ==
    \A r \in AgentReqs :
        (/\ agent[r].pc = "done"
         /\ ~agent[r].traced
         /\ agent[r].events # <<>>
         /\ agent[r].events[1] = "cache_miss"
         /\ \A i \in DOMAIN agent[r].events :
                agent[r].events[i] # "search_raised")
        => /\ agent[r].status = 200
           /\ \E i \in DOMAIN agent[r].events :
                  agent[r].events[i] = "cache_store"

\* C28: the index files that a completed rebuild wrote are the ones the HTTP
\* process loads at its next startup: the shutdown of an HTTP process whose
\* in-memory index is another, older one leaves the files as the rebuild
\* wrote them.
C28_ShutdownKeepsRebuiltIndex ==
    [][(/\ lastCall = Call("process_documents", NoFilter, 1)
        /\ life.pc = "running"
        /\ life'.pc = "ended"
        /\ vs["http"].index # disk.indexFile.data)
       => disk' = disk]_vars

\* C29: the token usage that a request adds to its trace and reports as
\* tokens_used and cost is the usage of that request's own model call.
C29_RequestReportsOwnTokens ==
    \A r \in UsageReqs :
        usage.req[r].pc = "done" =>
            LET own == usage.req[r].input_tokens + usage.req[r].output_tokens
                ownCost == Cost(usage.req[r].input_tokens,
                                usage.req[r].output_tokens)
            IN  /\ usage.req[r].tokens_used = own
                /\ usage.req[r].trace_tokens = own
                /\ usage.req[r].cost = ownCost
                /\ usage.req[r].trace_cost = ownCost

\* C30: the response built from a failed LLM query is not stored in the
\* query cache, and no later request is answered with it from the cache.
C30_FailedAnswerNotCached ==
    /\ \A k \in CacheKeys : queryCache.cache[k] # "error"
    /\ \A r \in AgentReqs :
           (agent[r].pc = "done" /\ agent[r].events = <<"cache_hit">>)
               => agent[r].response # "error"

=============================================================================
